---------------------------- MODULE Spec2Model ----------------------------
(***************************************************************************)
(* A model of the smvblock repository.  The repository holds several       *)
(* programs; each is modelled by its own group of actions, and the         *)
(* variable `program` says which one a behaviour is running:               *)
(*                                                                         *)
(*   "state"   smv-core's State (balances and nonces), driven directly     *)
(*             through State::apply_transaction;                           *)
(*   "ledger"  smv-core's Blockchain (blocks, pending pool, State);        *)
(*   "pos"     the stake-based node of src/src (Node, Blockchain and the   *)
(*             Database of users, blocks and transactions);                *)
(*   "node"    the P2P node of src/node (P2P over smv-core's Blockchain    *)
(*             and a Database of blocks).                                  *)
(*                                                                         *)
(* Abstractions.  SHA-256 is an injective digest: a hash is the tuple of   *)
(* the bytes that were hashed.  An Ed25519 signature is the pair of the    *)
(* signing key and the message signed, so it verifies under a public key   *)
(* over a message exactly when that key signed that message.  A HashMap    *)
(* read with unwrap_or(&0) is a total function that is 0 where the map has *)
(* no entry.  Amounts stay far below 2^64, so no u64 addition in the       *)
(* model can wrap.                                                         *)
(***************************************************************************)
EXTENDS Integers, Sequences, FiniteSets, TLC

VARIABLES
    program,               \* which program this behaviour runs
    balances,              \* State.balances
    nonces,                \* State.nonces
    blocks,                \* Blockchain.blocks
    pending_transactions,  \* Blockchain.pending_transactions
    call,                  \* the last call made: its name and arguments
    result,                \* what the last call returned (Ok or the error)
    returned,              \* what the last mine_block or produce_block handed back, if anything
    accepted,              \* history: per sender, the nonces apply_transaction accepted
    okTxs,                 \* history: transactions add_transaction returned Ok for
                           \* (ledger), or that a produced block included (stake-based node)
    mined,                 \* history: number of mine_block calls that returned Ok
    users,                 \* Database: the users table, by address
    dbBlocks,              \* Database: the blocks table, in rowid order (of the
                           \* stake-based node, or of the P2P node)
    dbTxs,                 \* Database: the transactions table, in rowid order
    ready_state,           \* Node: the ReadyStates sent on the ready channel, in order
    subscribers,           \* Node: number of receivers of the ready channel
    phase,                 \* Node: where Node::start is
    listener,              \* P2P: whether the node holds the bound listen socket
    outbound,              \* the lines the seed has received from connect_to_peer
    ledger_lock,           \* Mutex<Blockchain>: the handler holding it, then those
                           \* waiting for it in the order they asked
    handlers,              \* per connection handler, where it is in its
                           \* SendTransaction arm and what it holds there
    clock,                 \* seconds since Node::start
    next_sweep,            \* P2P::run: when the sleep of the sweeper task ends
    peers,                 \* P2P.peers, by socket address
    conn,                  \* per connection: "open" or "closed"
    reqs,                  \* history: per connection, the requests read that bear a response
    out,                   \* per connection, the responses written and flushed
    handled                \* history: number of lines read so far

coreVars == <<balances, nonces, blocks, pending_transactions, returned,
              accepted, okTxs, mined>>

posVars == <<users, dbBlocks, dbTxs>>

lockVars == <<ledger_lock, handlers>>

netVars == <<ready_state, subscribers, phase, listener, outbound, clock, next_sweep,
             peers, conn, reqs, out, handled, lockVars>>

vars == <<program, call, result, coreVars, posVars, netVars>>

-----------------------------------------------------------------------------
(* Bounds of the model *)

\* the number of transactions a behaviour gets accepted
MaxTxs == 2
\* the number of blocks a chain grows to
MaxBlocks == 3
\* the number of transactions submitted to the stake-based node
MaxRows == 1
\* the number of rows the blocks table grows to
MaxPosBlocks == 2
\* the coins (balances and stakes) up to which blocks are produced and
\* rewards are handed out
MaxSupply == 5

\* lines read by the P2P node, over all its connections
MaxLines == 2

\* steps of the P2P node's clock
MaxTicks == 4

\* connections the P2P node accepts
Conns == {1, 2}

-----------------------------------------------------------------------------
(* crypto.rs *)

Keys == {"k1", "k2"}

\* 32 bytes that VerifyingKey::from_bytes rejects
BadKeyBytes == "notakey"

Address == {"a1", "a2", "a3"}

\* hash(data): the digest stands for the bytes hashed
hash(data) == <<"sha256", data>>

\* public_key_to_address: SHA-256 of the key bytes.  "a3" is an address
\* whose key nobody in the model holds; "a0" is the digest of bytes that
\* are no key.
public_key_to_address(k) ==
    IF k = "k1" THEN "a1" ELSE IF k = "k2" THEN "a2" ELSE "a0"

\* signing_key.sign(message)
sign(k, message) == <<k, message>>

\* crypto::verify
verify(public_key, message, signature) ==
    IF signature = <<public_key, message>> THEN "Ok" ELSE "InvalidSignature"

\* [0; 32]
ZeroHash == <<>>

-----------------------------------------------------------------------------
(* transaction.rs *)

\* Transaction::create_message: sender || receiver || amount_le || nonce_le
create_message(sender, receiver, amount, nonce) ==
    <<sender, receiver, amount, nonce>>

\* Transaction::new
TransactionNew(k, receiver, amount, nonce) ==
    LET sender == public_key_to_address(k)
        message_hash == hash(create_message(sender, receiver, amount, nonce))
    IN  [sender |-> sender, receiver |-> receiver, amount |-> amount,
         nonce |-> nonce, signature |-> sign(k, message_hash),
         sender_public_key |-> k]

\* Transaction::verify
\* a verify that checks the signature before the sender's address
TransactionVerify_sigfirst(tx) ==
    IF tx.sender_public_key \notin Keys THEN "InvalidSignature"
    ELSE IF verify(tx.sender_public_key,
                   hash(create_message(tx.sender, tx.receiver, tx.amount, tx.nonce)),
                   tx.signature) # "Ok"
         THEN "InvalidSignature"
    ELSE IF public_key_to_address(tx.sender_public_key) # tx.sender
         THEN "InvalidSenderAddress"
    ELSE "Ok"

TransactionVerify(tx) ==
    IF tx.sender_public_key \notin Keys THEN "InvalidSignature"
    ELSE IF public_key_to_address(tx.sender_public_key) # tx.sender
         THEN "InvalidSenderAddress"
    ELSE verify(tx.sender_public_key,
                hash(create_message(tx.sender, tx.receiver, tx.amount, tx.nonce)),
                tx.signature)

\* Transaction::hash
TransactionHash(tx) == hash(<<tx.sender, tx.receiver, tx.amount, tx.nonce>>)

\* The transactions a caller can hand over: everything Transaction::new
\* builds, and transactions changed after signing (the fields are public).
Amounts == {1, 2}

\* the receivers of the transactions built: the sender itself or the other
\* key's address
Receivers == {"a1", "a2"}

SignedTxs ==
    { TransactionNew(k, r, a, n) :
        k \in Keys, r \in Receivers, a \in Amounts, n \in 1..MaxTxs }

TamperedTxs ==
    LET t == TransactionNew("k1", "a2", 1, 1)
    IN  { [t EXCEPT !.amount = 0],                 \* signed for another amount
          [t EXCEPT !.sender = "a3"],              \* sender is not the key's address
          [t EXCEPT !.sender_public_key = BadKeyBytes],
          [t EXCEPT !.signature = <<"k2", t.signature[2]>>] }

\* a transfer of amount 0, which a sender without funds can make
ZeroAmountTxs == {TransactionNew("k1", "a2", 0, 1)}

TxInputs == SignedTxs \cup TamperedTxs \cup ZeroAmountTxs

-----------------------------------------------------------------------------
(* state.rs *)

\* State::get_balance
get_balance(bal, address) == bal[address]

\* State::get_nonce: the stored nonce (0 when absent) plus one
get_nonce(non, address) == non[address] + 1

\* mutant: a nonce above the expected one is accepted (only a nonce
\* below it is refused)
apply_transaction_gap(bal, non, tx) ==
    LET sender_balance == bal[tx.sender]
        bal1 == [bal EXCEPT ![tx.sender] = sender_balance - tx.amount]
        bal2 == [bal1 EXCEPT ![tx.receiver] = bal1[tx.receiver] + tx.amount]
    IN  IF tx.nonce < non[tx.sender] + 1
        THEN [result |-> "InvalidNonce", balances |-> bal, nonces |-> non]
        ELSE IF sender_balance < tx.amount
        THEN [result |-> "InsufficientBalance", balances |-> bal, nonces |-> non]
        ELSE [result |-> "Ok", balances |-> bal2,
              nonces |-> [non EXCEPT ![tx.sender] = tx.nonce]]

\* mutant: the accepted nonce is not stored
apply_transaction_forget(bal, non, tx) ==
    LET sender_balance == bal[tx.sender]
        bal1 == [bal EXCEPT ![tx.sender] = sender_balance - tx.amount]
        bal2 == [bal1 EXCEPT ![tx.receiver] = bal1[tx.receiver] + tx.amount]
    IN  IF tx.nonce # non[tx.sender] + 1
        THEN [result |-> "InvalidNonce", balances |-> bal, nonces |-> non]
        ELSE IF sender_balance < tx.amount
        THEN [result |-> "InsufficientBalance", balances |-> bal, nonces |-> non]
        ELSE [result |-> "Ok", balances |-> bal2, nonces |-> non]

\* mutant: the balance is compared with <= the wrong way round, so an
\* amount above the balance passes
apply_transaction_nobalance(bal, non, tx) ==
    LET sender_balance == bal[tx.sender]
        bal1 == [bal EXCEPT ![tx.sender] = sender_balance - tx.amount]
        bal2 == [bal1 EXCEPT ![tx.receiver] = bal1[tx.receiver] + tx.amount]
    IN  IF tx.nonce # non[tx.sender] + 1
        THEN [result |-> "InvalidNonce", balances |-> bal, nonces |-> non]
        ELSE IF tx.amount < sender_balance
        THEN [result |-> "InsufficientBalance", balances |-> bal, nonces |-> non]
        ELSE [result |-> "Ok", balances |-> bal2,
              nonces |-> [non EXCEPT ![tx.sender] = tx.nonce]]

\* State::apply_transaction on the state (bal, non): the result and the
\* state it leaves.
apply_transaction(bal, non, tx) ==
    LET expected_nonce == get_nonce(non, tx.sender)
        sender_balance == get_balance(bal, tx.sender)
        bal1 == [bal EXCEPT ![tx.sender] = sender_balance - tx.amount]
        receiver_balance == get_balance(bal1, tx.receiver)
        bal2 == [bal1 EXCEPT ![tx.receiver] = receiver_balance + tx.amount]
    IN  IF tx.nonce # expected_nonce
        THEN [result |-> "InvalidNonce", balances |-> bal, nonces |-> non]
        ELSE IF sender_balance < tx.amount
        THEN [result |-> "InsufficientBalance", balances |-> bal, nonces |-> non]
        ELSE [result |-> "Ok", balances |-> bal2,
              nonces |-> [non EXCEPT ![tx.sender] = tx.nonce]]

\* State::new, then State::set_balance for the account the setup funds
\* (the tests fund the sender this way before the first transaction).
Fundings ==
    { [a \in Address |-> IF a = "a1" THEN f ELSE 0] : f \in {0, 2} }

NoCall ==
    [op |-> "none", tx |-> <<>>, ts |-> 0, addr |-> "none", to |-> "none", n |-> 0, c |-> 0,
     level |-> "none"]

\* history: the nonce is recorded when apply_transaction accepts tx
Accept(acc, r, tx) ==
    IF r.result = "Ok" THEN [acc EXCEPT ![tx.sender] = Append(@, tx.nonce)]
    ELSE acc

\* history: how many transactions were accepted so far
NumAccepted == Len(accepted["a1"]) + Len(accepted["a2"]) + Len(accepted["a3"])

\* the state of a program without the P2P node
NoNetwork ==
    /\ ready_state = <<>>
    /\ subscribers = 0
    /\ phase = "none"
    /\ listener = FALSE
    /\ outbound = <<>>
    /\ ledger_lock = <<>>
    /\ handlers = <<>>
    /\ clock = 0
    /\ next_sweep = 0
    /\ peers = <<>>
    /\ conn = <<>>
    /\ reqs = <<>>
    /\ out = <<>>
    /\ handled = 0

InitState ==
    /\ NoNetwork
    /\ program = "state"
    /\ balances \in Fundings
    /\ nonces = [a \in Address |-> 0]
    /\ blocks = <<>>
    /\ pending_transactions = <<>>
    /\ call = NoCall
    /\ result = "none"
    /\ returned = <<>>
    /\ accepted = [a \in Address |-> <<>>]
    /\ okTxs = {}
    /\ mined = 0
    /\ users = <<>>
    /\ dbBlocks = <<>>
    /\ dbTxs = <<>>

\* state.apply_transaction(&tx), called on a State directly (as
\* Blockchain::from_blocks does): it does not look at the signature.
StateApplyTransaction(tx) ==
    /\ program = "state"
    /\ apply_transaction(balances, nonces, tx).result = "Ok" => NumAccepted < MaxTxs
    /\ LET r == apply_transaction(balances, nonces, tx)
       IN  /\ balances' = r.balances
           /\ nonces' = r.nonces
           /\ result' = r.result
           /\ accepted' = Accept(accepted, r, tx)
    /\ call' = [NoCall EXCEPT !.op = "apply_transaction", !.tx = <<tx>>]
    /\ UNCHANGED <<program, netVars, blocks, pending_transactions, returned, okTxs, mined>>
    /\ UNCHANGED posVars

\* Transaction::validate_light
validate_light(tx) == TransactionVerify(tx)

\* Transaction::validate_full: the signature, then the balance, then the
\* nonce, which is compared with get_nonce(sender) + 1
validate_full(bal, non, tx) ==
    IF validate_light(tx) # "Ok" THEN validate_light(tx)
    ELSE IF get_balance(bal, tx.sender) < tx.amount THEN "InsufficientBalance"
    ELSE IF tx.nonce # get_nonce(non, tx.sender) + 1 THEN "InvalidNonce"
    ELSE "Ok"

\* Transaction::validate(level, state); `state` is <<>> for None
validate(tx, level, state) ==
    IF level = "Light" THEN validate_light(tx)
    ELSE IF state = <<>> THEN "StateError"
    ELSE validate_full(state[1].balances, state[1].nonces, tx)

\* the transactions handed to validate: the ones of TxInputs, and one with
\* its receiver and one with its nonce changed after signing
ValidateTxs ==
    LET t == TransactionNew("k1", "a2", 1, 1)
    IN  TxInputs \cup {[t EXCEPT !.receiver = "a3"], [t EXCEPT !.nonce = 2]}

\* the (level, state given) pairs validate is called with
ValidateInputs == {<<"Light", 0>>, <<"Full", 1>>, <<"Full", 0>>}

\* tx.validate(level, state) against the State as it is, or with no state;
\* call.n is 1 when a state is passed
TransactionValidate(tx, level, given) ==
    /\ program = "state"
    /\ call' = [NoCall EXCEPT !.op = "validate", !.tx = <<tx>>, !.level = level,
                              !.n = given]
    /\ result' = validate(tx, level,
                          IF given = 1
                          THEN <<[balances |-> balances, nonces |-> nonces]>>
                          ELSE <<>>)
    /\ UNCHANGED <<program, netVars, coreVars, posVars>>

NextState ==
    \/ \E tx \in TxInputs : StateApplyTransaction(tx)
    \/ \E tx \in ValidateTxs, i \in ValidateInputs : TransactionValidate(tx, i[1], i[2])

SpecState == InitState /\ [][NextState]_vars

-----------------------------------------------------------------------------
(* block.rs *)

DIFFICULTY == 2

\* Block::calculate_hash: timestamp || tx hashes || previous_hash || nonce
calculate_hash(b) ==
    hash(<<b.timestamp,
           [i \in 1..Len(b.transactions) |-> TransactionHash(b.transactions[i])],
           b.previous_hash,
           b.nonce>>)

\* The number of zero bytes a digest starts with.  SHA-256 is not computed:
\* a fixed function of the hashed timestamp and nonce stands for it, under
\* which some timestamps give a digest that already has the zero prefix at
\* nonce 0 and the others need the nonce to be raised.
LeadingZeroBytes(h) ==
    IF h = ZeroHash THEN 32
    ELSE IF (h[2][1] + h[2][4]) % 2 = 0 THEN 2 ELSE 0

\* Block::is_valid_proof
is_valid_proof(b) == LeadingZeroBytes(calculate_hash(b)) >= DIFFICULTY

\* Block::mine
RECURSIVE mine(_)
mine(b) ==
    IF is_valid_proof(b) THEN b
    ELSE LET b1 == [b EXCEPT !.nonce = @ + 1]
         IN  mine([b1 EXCEPT !.hash = calculate_hash(b1)])

\* Block::new, at time `now`
BlockNew(transactions, previous_hash, now) ==
    mine([timestamp |-> now, transactions |-> transactions,
          previous_hash |-> previous_hash, hash |-> ZeroHash, nonce |-> 0])

\* the first error among the transactions of a block, or Ok
RECURSIVE VerifyAll(_)
VerifyAll(txs) ==
    IF txs = <<>> THEN "Ok"
    ELSE IF TransactionVerify(Head(txs)) # "Ok" THEN TransactionVerify(Head(txs))
    ELSE VerifyAll(Tail(txs))

\* Block::verify
BlockVerify(b) ==
    IF ~is_valid_proof(b) THEN "InvalidProofOfWork"
    ELSE IF b.hash # calculate_hash(b) THEN "InvalidHash"
    ELSE VerifyAll(b.transactions)

\* Utc::now(): one time whose digest has the zero prefix at nonce 0, and
\* one whose digest needs the nonce raised
Times == {0, 1}

-----------------------------------------------------------------------------
(* smv-core blockchain.rs *)

\* Blockchain::new at time `now`, then State::set_balance by the setup
InitLedger ==
    /\ NoNetwork
    /\ program = "ledger"
    /\ balances \in Fundings
    /\ nonces = [a \in Address |-> 0]
    /\ \E now \in Times : blocks = <<BlockNew(<<>>, ZeroHash, now)>>
    /\ pending_transactions = <<>>
    /\ call = NoCall
    /\ result = "none"
    /\ returned = <<>>
    /\ accepted = [a \in Address |-> <<>>]
    /\ okTxs = {}
    /\ mined = 0
    /\ users = <<>>
    /\ dbBlocks = <<>>
    /\ dbTxs = <<>>

\* Blockchain::add_transaction
add_transaction(tx) ==
    /\ program = "ledger"
    /\ NumAccepted < MaxTxs
    /\ call' = [NoCall EXCEPT !.op = "add_transaction", !.tx = <<tx>>]
    /\ IF TransactionVerify(tx) # "Ok"
       THEN /\ result' = TransactionVerify(tx)
            /\ UNCHANGED coreVars
       ELSE LET r == apply_transaction(balances, nonces, tx)
            IN  /\ result' = r.result
                /\ balances' = r.balances
                /\ nonces' = r.nonces
                /\ accepted' = Accept(accepted, r, tx)
                /\ pending_transactions' =
                      IF r.result = "Ok" THEN Append(pending_transactions, tx)
                      ELSE pending_transactions
                /\ okTxs' = IF r.result = "Ok" THEN okTxs \cup {tx} ELSE okTxs
                /\ UNCHANGED <<blocks, returned, mined>>
    /\ UNCHANGED <<program, netVars, posVars>>

\* a mine_block that puts the new block in the place of the last one
mine_block_replace(now) ==
    /\ program = "ledger"
    /\ Len(blocks) < MaxBlocks
    /\ call' = [NoCall EXCEPT !.op = "mine_block", !.ts = now]
    /\ LET previous_hash == IF blocks = <<>> THEN ZeroHash
                            ELSE blocks[Len(blocks)].hash
           block == BlockNew(pending_transactions, previous_hash, now)
       IN  /\ pending_transactions' = <<>>
           /\ result' = BlockVerify(block)
           /\ IF BlockVerify(block) = "Ok"
              THEN /\ blocks' = [blocks EXCEPT ![Len(blocks)] = block]
                   /\ returned' = <<block>>
                   /\ mined' = mined + 1
              ELSE /\ returned' = <<>>
                   /\ UNCHANGED <<blocks, mined>>
    /\ UNCHANGED <<program, netVars, balances, nonces, accepted, okTxs, posVars>>

\* Blockchain::mine_block at time `now`.  The pending pool is drained into
\* the new block before the block is verified.
mine_block(now) ==
    /\ program = "ledger"
    /\ Len(blocks) < MaxBlocks
    /\ call' = [NoCall EXCEPT !.op = "mine_block", !.ts = now]
    /\ LET previous_hash == IF blocks = <<>> THEN ZeroHash
                            ELSE blocks[Len(blocks)].hash
           block == BlockNew(pending_transactions, previous_hash, now)
       IN  /\ pending_transactions' = <<>>
           /\ result' = BlockVerify(block)
           /\ IF BlockVerify(block) = "Ok"
              THEN /\ blocks' = Append(blocks, block)
                   /\ returned' = <<block>>
                   /\ mined' = mined + 1
              ELSE /\ returned' = <<>>
                   /\ UNCHANGED <<blocks, mined>>
    /\ UNCHANGED <<program, netVars, balances, nonces, accepted, okTxs, posVars>>

\* the result of Blockchain::verify_chain on a block sequence, from index i
RECURSIVE VerifyChainFrom(_, _)
VerifyChainFrom(bs, i) ==
    IF i > Len(bs) THEN "Ok"
    ELSE IF BlockVerify(bs[i]) # "Ok" THEN BlockVerify(bs[i])
    ELSE IF i > 1 /\ bs[i].previous_hash # bs[i - 1].hash THEN "InvalidHash"
    ELSE VerifyChainFrom(bs, i + 1)

\* Blockchain::verify_chain
verify_chain ==
    /\ program = "ledger"
    /\ call' = [NoCall EXCEPT !.op = "verify_chain"]
    /\ result' = VerifyChainFrom(blocks, 1)
    /\ UNCHANGED <<program, netVars, coreVars, posVars>>

Next ==
    \/ \E tx \in TxInputs : add_transaction(tx)
    \/ \E now \in Times : mine_block(now)
    \/ verify_chain

Spec == InitLedger /\ [][Next]_vars

-----------------------------------------------------------------------------
(* The stake-based node: src/src/blockchain.rs, src/src/node.rs, src/src/db.rs *)

\* Transfer::hash
TransferHash(transfer) ==
    hash(<<transfer.receiver, transfer.amount, transfer.nonce>>)

\* Transfer::into_transaction / Transaction::sign
into_transaction(transfer, k) ==
    [payload |-> transfer, sender_public_key |-> k,
     signature |-> sign(k, TransferHash(transfer))]

\* Transaction::verify of src/src/blockchain.rs
PosVerify(tx) ==
    /\ tx.sender_public_key \in Keys
    /\ verify(tx.sender_public_key, TransferHash(tx.payload), tx.signature) = "Ok"

\* Transaction::sender_address
sender_address(tx) == public_key_to_address(tx.sender_public_key)

\* compute_merkle_root: one level of pair hashes
MerklePairs(hs) ==
    [i \in 1..(Len(hs) \div 2) |-> hash(<<hs[2 * i - 1], hs[2 * i]>>)]

RECURSIVE MerkleReduce(_)
MerkleReduce(hs) ==
    IF Len(hs) <= 1 THEN hs[1]
    ELSE IF Len(hs) % 2 # 0 THEN MerkleReduce(MerklePairs(Append(hs, hs[Len(hs)])))
    ELSE MerkleReduce(MerklePairs(hs))

\* compute_merkle_root
compute_merkle_root(txs) ==
    IF txs = <<>> THEN hash(<<>>)
    ELSE MerkleReduce([i \in 1..Len(txs) |-> hash(txs[i])])

\* Block::new of src/src/blockchain.rs, at time `now`
PosBlockNew(previous_hash, nonce, txs, now) ==
    [previous_hash |-> previous_hash, merkle_root |-> compute_merkle_root(txs),
     nonce |-> nonce, timestamp |-> now, transactions |-> txs]

\* Block::hash of src/src/blockchain.rs: the digest of every field
PosBlockHash(b) ==
    hash(<<b.previous_hash, b.merkle_root, b.nonce, b.timestamp, b.transactions>>)

\* Database::get_user: the row, or nothing
get_user(us, address) == IF address \in DOMAIN us THEN <<us[address]>> ELSE <<>>

\* Database::update_user: UPDATE ... WHERE address = ?
update_user(us, address, user) ==
    IF address \in DOMAIN us THEN [us EXCEPT ![address] = user] ELSE us

RECURSIVE SumOver(_, _, _)
SumOver(us, field, addrs) ==
    IF addrs = {} THEN 0
    ELSE LET a == CHOOSE x \in addrs : TRUE
         IN  us[a][field] + SumOver(us, field, addrs \ {a})

\* Database::get_total_stake: SELECT SUM(stake) FROM users
get_total_stake(us) == SumOver(us, "stake", DOMAIN us)

TotalBalance(us) == SumOver(us, "balance", DOMAIN us)

\* the sum of balance + stake over all users
Supply(us) == TotalBalance(us) + get_total_stake(us)

\* Database::get_blocks: the rows of the blocks table; the transactions
\* of a block are not read back
get_blocks(rows) ==
    [i \in 1..Len(rows) |->
        [previous_hash |-> rows[i].previous_hash, merkle_root |-> rows[i].merkle_root,
         nonce |-> rows[i].nonce, timestamp |-> rows[i].timestamp,
         transactions |-> <<>>]]

\* Database::get_all_transactions: every row, whatever its verified flag
get_all_transactions(rows) == [i \in 1..Len(rows) |-> rows[i].tx]

\* Database::add_block: the rows it adds to the transactions table
BlockTxRows(b) ==
    [i \in 1..Len(b.transactions) |-> [tx |-> b.transactions[i], verified |-> TRUE]]

\* Database::add_block: the row it adds to the blocks table
BlockRow(b) ==
    [previous_hash |-> b.previous_hash, merkle_root |-> b.merkle_root,
     nonce |-> b.nonce, timestamp |-> b.timestamp]

\* a reward that truncates the quotient instead of rounding it
RewardFloor(stake, total_stake) ==
    IF total_stake = 0 THEN 0 ELSE stake \div total_stake

\* (stake as f64 / total_stake as f64).round() as u64: the quotient rounded
\* to the nearest integer, halves away from zero; 0/0 is NaN, cast to 0
RewardOf(stake, total_stake) ==
    IF total_stake = 0 THEN 0
    ELSE (2 * stake + total_stake) \div (2 * total_stake)

\* Blockchain::reward_validator on the users table
reward_validator(us, validator_address) ==
    IF get_user(us, validator_address) = <<>>
    THEN [result |-> "Validator not found", users |-> us]
    ELSE LET user == get_user(us, validator_address)[1]
             reward == RewardOf(user.stake, get_total_stake(us))
         IN  [result |-> "Ok",
              users |-> update_user(us, validator_address,
                                    [user EXCEPT !.balance = @ + reward])]

\* a slash that subtracts without the comparison that guards it
slash_validator_wrapping(us, validator_address, penalty) ==
    IF get_user(us, validator_address) = <<>>
    THEN [result |-> "Validator not found", users |-> us]
    ELSE LET user == get_user(us, validator_address)[1]
         IN  [result |-> "Ok",
              users |-> update_user(us, validator_address,
                  [user EXCEPT !.stake = @ - penalty])]

\* Blockchain::slash_validator and Node::slash_validator on the users table
slash_validator(us, validator_address, penalty) ==
    IF get_user(us, validator_address) = <<>>
    THEN [result |-> "Validator not found", users |-> us]
    ELSE LET user == get_user(us, validator_address)[1]
             slashed == IF user.stake < penalty
                        THEN [user EXCEPT !.stake = 0]
                        ELSE [user EXCEPT !.stake = @ - penalty]
         IN  [result |-> "Ok", users |-> update_user(us, validator_address, slashed)]

\* an apply_block that credits the receiver and forgets to debit the sender
RECURSIVE apply_block_nodebit(_, _)
apply_block_nodebit(us, txs) ==
    IF txs = <<>> THEN [result |-> "Ok", users |-> us]
    ELSE LET tx == Head(txs)
             amount == tx.payload.amount
             sa == sender_address(tx)
             ra == tx.payload.receiver
         IN  IF get_user(us, sa) = <<>>
             THEN [result |-> "Sender not found", users |-> us]
             ELSE IF get_user(us, ra) = <<>>
             THEN [result |-> "Receiver not found", users |-> us]
             ELSE IF get_user(us, sa)[1].balance < amount
             THEN [result |-> "insufficient balance", users |-> us]
             ELSE LET receiver == [get_user(us, ra)[1] EXCEPT !.balance = @ + amount]
                  IN  apply_block_nodebit(update_user(us, ra, receiver), Tail(txs))

\* Blockchain::apply_block on the users table: the transactions are
\* applied one after the other, each written back before the next is read
RECURSIVE apply_block(_, _)
apply_block(us, txs) ==
    IF txs = <<>> THEN [result |-> "Ok", users |-> us]
    ELSE LET tx == Head(txs)
             amount == tx.payload.amount
             sa == sender_address(tx)
             ra == tx.payload.receiver
         IN  IF get_user(us, sa) = <<>>
             THEN [result |-> "Sender not found", users |-> us]
             ELSE IF get_user(us, ra) = <<>>
             THEN [result |-> "Receiver not found", users |-> us]
             ELSE IF get_user(us, sa)[1].balance < amount
             THEN [result |-> "insufficient balance", users |-> us]
             ELSE LET sender == [get_user(us, sa)[1] EXCEPT !.balance = @ - amount]
                      receiver == [get_user(us, ra)[1] EXCEPT !.balance = @ + amount]
                  IN  apply_block(update_user(update_user(us, sa, sender), ra, receiver),
                                  Tail(txs))

\* a selection that samples every registered user, staked or not
select_validator_any(us) ==
    IF \A a \in DOMAIN us : us[a].stake = 0 THEN {} ELSE DOMAIN us

\* Blockchain::select_validator: the addresses WeightedIndex can return
\* (an index of weight 0 is never sampled); none when every stake is 0
select_validator(us) == { a \in DOMAIN us : us[a].stake > 0 }

PosUsers == {"a1", "a2"}
InitialBalances == {2}
StakeAmounts == {1}
Penalties == {2}
TransferAmounts == {1}

\* the transactions handed to Blockchain::add_transaction directly: one
\* changed after it was signed, and one that pays its own sender
DirectTxs ==
    LET t == into_transaction([receiver |-> "a2", amount |-> 1, nonce |-> 0], "k1")
    IN  { [t EXCEPT !.payload.amount = 2],
          into_transaction([receiver |-> "a1", amount |-> 1, nonce |-> 0], "k1") }

\* Node::new on a fresh test database
InitPoS ==
    /\ NoNetwork
    /\ program = "pos"
    /\ balances = [a \in Address |-> 0]
    /\ nonces = [a \in Address |-> 0]
    /\ blocks = <<>>
    /\ pending_transactions = <<>>
    /\ call = NoCall
    /\ result = "none"
    /\ returned = <<>>
    /\ accepted = [a \in Address |-> <<>>]
    /\ okTxs = {}
    /\ mined = 0
    /\ users = <<>>
    /\ dbBlocks = <<>>
    /\ dbTxs = <<>>

\* Node::add_user with a user from User::generate(initial_balance)
add_user(a, initial_balance) ==
    /\ program = "pos"
    /\ a \notin DOMAIN users
    /\ users' = [x \in DOMAIN users \cup {a} |->
                    IF x = a THEN [balance |-> initial_balance, stake |-> 0]
                    ELSE users[x]]
    /\ call' = [NoCall EXCEPT !.op = "add_user", !.addr = a, !.n = initial_balance]
    /\ result' = "Ok"
    /\ UNCHANGED <<program, netVars, coreVars, dbBlocks, dbTxs>>

\* Node::stake
stake(a, amount) ==
    /\ program = "pos"
    /\ call' = [NoCall EXCEPT !.op = "stake", !.addr = a, !.n = amount]
    /\ IF get_user(users, a) = <<>>
       THEN result' = "User not found" /\ UNCHANGED users
       ELSE IF users[a].balance < amount
       THEN result' = "Insufficient balance to stake" /\ UNCHANGED users
       ELSE /\ result' = "Ok"
            /\ users' = update_user(users, a,
                  [users[a] EXCEPT !.balance = @ - amount, !.stake = @ + amount])
    /\ UNCHANGED <<program, netVars, coreVars, dbBlocks, dbTxs>>

\* Node::slash_validator
node_slash_validator(a, penalty) ==
    /\ program = "pos"
    /\ call' = [NoCall EXCEPT !.op = "Node::slash_validator", !.addr = a, !.n = penalty]
    /\ result' = slash_validator(users, a, penalty).result
    /\ users' = slash_validator(users, a, penalty).users
    /\ UNCHANGED <<program, netVars, coreVars, dbBlocks, dbTxs>>

\* Blockchain::slash_validator
blockchain_slash_validator(a, penalty) ==
    /\ program = "pos"
    /\ call' = [NoCall EXCEPT !.op = "Blockchain::slash_validator", !.addr = a,
                              !.n = penalty]
    /\ result' = slash_validator(users, a, penalty).result
    /\ users' = slash_validator(users, a, penalty).users
    /\ UNCHANGED <<program, netVars, coreVars, dbBlocks, dbTxs>>

\* Blockchain::reward_validator
blockchain_reward_validator(a) ==
    /\ program = "pos"
    /\ Supply(users) < MaxSupply
    /\ call' = [NoCall EXCEPT !.op = "Blockchain::reward_validator", !.addr = a]
    /\ result' = reward_validator(users, a).result
    /\ users' = reward_validator(users, a).users
    /\ UNCHANGED <<program, netVars, coreVars, dbBlocks, dbTxs>>

\* Database::get_latest_nonce is not in the source tree; Database::get_nonce
\* stands for it: the number of rows whose sender_public_key column equals
\* the bytes passed, which are the sender's address
get_latest_nonce(rows, address) ==
    Cardinality({ i \in 1..Len(rows) : rows[i].tx.sender_public_key = address })

\* Blockchain::add_transaction of src/src/blockchain.rs: the row is stored
\* with the outcome of verify() as its flag
blockchain_add_transaction(tx) ==
    /\ program = "pos"
    /\ Len(dbTxs) < MaxRows
    /\ call' = [NoCall EXCEPT !.op = "Blockchain::add_transaction", !.tx = <<tx>>]
    /\ dbTxs' = Append(dbTxs, [tx |-> tx, verified |-> PosVerify(tx)])
    /\ result' = "Ok"
    /\ UNCHANGED <<program, netVars, coreVars, users, dbBlocks>>

\* a send_transaction that does not compare the amount with the balance
send_transaction_unchecked(k, receiver, amount) ==
    LET sender_addr == public_key_to_address(k)
        tx == into_transaction([receiver |-> receiver, amount |-> amount,
                                nonce |-> get_latest_nonce(dbTxs, sender_addr)], k)
        rejected == IF sender_addr = receiver
                    THEN "Sender and receiver cannot be the same"
                    ELSE IF get_user(users, sender_addr) = <<>>
                    THEN "Sender not found"
                    ELSE "Ok"
    IN  /\ program = "pos"
        /\ Len(dbTxs) < MaxRows
        /\ result' = rejected
        /\ call' = [NoCall EXCEPT !.op = "send_transaction", !.addr = sender_addr,
                                  !.to = receiver, !.n = amount,
                                  !.tx = IF rejected = "Ok" THEN <<tx>> ELSE <<>>]
        /\ dbTxs' = IF rejected = "Ok"
                    THEN Append(dbTxs, [tx |-> tx, verified |-> PosVerify(tx)])
                    ELSE dbTxs
        /\ UNCHANGED <<program, netVars, coreVars, users, dbBlocks>>

\* Node::send_transaction
send_transaction(k, receiver, amount) ==
    LET sender_addr == public_key_to_address(k)
        tx == into_transaction([receiver |-> receiver, amount |-> amount,
                                nonce |-> get_latest_nonce(dbTxs, sender_addr)], k)
    IN  /\ program = "pos"
        /\ Len(dbTxs) < MaxRows
        /\ IF sender_addr = receiver
           THEN /\ result' = "Sender and receiver cannot be the same"
                /\ call' = [NoCall EXCEPT !.op = "send_transaction", !.addr = sender_addr,
                                          !.to = receiver,
                                          !.n = amount]
                /\ UNCHANGED dbTxs
           ELSE IF get_user(users, sender_addr) = <<>>
           THEN /\ result' = "Sender not found"
                /\ call' = [NoCall EXCEPT !.op = "send_transaction", !.addr = sender_addr,
                                          !.to = receiver,
                                          !.n = amount]
                /\ UNCHANGED dbTxs
           ELSE IF users[sender_addr].balance < amount
           THEN /\ result' = "Insufficient balance"
                /\ call' = [NoCall EXCEPT !.op = "send_transaction", !.addr = sender_addr,
                                          !.to = receiver,
                                          !.n = amount]
                /\ UNCHANGED dbTxs
           ELSE /\ result' = "Ok"
                /\ call' = [NoCall EXCEPT !.op = "send_transaction", !.addr = sender_addr,
                                          !.to = receiver,
                                          !.n = amount, !.tx = <<tx>>]
                /\ dbTxs' = Append(dbTxs, [tx |-> tx, verified |-> PosVerify(tx)])
        /\ UNCHANGED <<program, netVars, coreVars, users, dbBlocks>>

\* Node::produce_block at time `now`: select_validator, Block::new,
\* apply_block, then Blockchain::add_block (the signatures are checked
\* there, the block and its transactions are stored, the proposer is paid)
produce_block(now) ==
    LET transactions == get_all_transactions(dbTxs)
        blks == get_blocks(dbBlocks)
        previous_hash == IF blks = <<>> THEN ZeroHash ELSE PosBlockHash(blks[Len(blks)])
        block == PosBlockNew(previous_hash, Len(blks), transactions, now)
        applied == apply_block(users, transactions)
    IN  /\ program = "pos"
        /\ Len(dbBlocks) < MaxPosBlocks
        /\ Supply(users) <= MaxSupply
        /\ IF select_validator(users) = {}
           THEN /\ result' = "No users with stakes available"
                /\ call' = [NoCall EXCEPT !.op = "produce_block", !.ts = now]
                /\ UNCHANGED <<users, dbBlocks, dbTxs, returned, okTxs>>
           ELSE \E proposer \in select_validator(users) :
                /\ call' = [NoCall EXCEPT !.op = "produce_block", !.ts = now,
                                          !.addr = proposer]
                /\ IF applied.result # "Ok"
                   THEN /\ result' = applied.result
                        /\ users' = applied.users
                        /\ UNCHANGED <<dbBlocks, dbTxs, returned, okTxs>>
                   ELSE IF \E i \in 1..Len(transactions) : ~PosVerify(transactions[i])
                   THEN /\ result' = "Invalid transaction in block"
                        /\ users' = applied.users
                        /\ UNCHANGED <<dbBlocks, dbTxs, returned, okTxs>>
                   ELSE /\ result' = "Ok"
                        /\ dbBlocks' = Append(dbBlocks, BlockRow(block))
                        /\ dbTxs' = dbTxs \o BlockTxRows(block)
                        /\ users' = reward_validator(applied.users, proposer).users
                        /\ returned' = <<PosBlockHash(block)>>
                        /\ okTxs' = okTxs \cup {transactions[i] : i \in 1..Len(transactions)}
        /\ UNCHANGED <<program, netVars, balances, nonces, blocks, pending_transactions,
                       accepted, mined>>

NextPoS ==
    \/ \E a \in PosUsers, b \in InitialBalances : add_user(a, b)
    \/ \E a \in PosUsers, n \in StakeAmounts : stake(a, n)
    \/ \E a \in PosUsers, p \in Penalties : node_slash_validator(a, p)
    \/ \E a \in PosUsers, p \in Penalties : blockchain_slash_validator(a, p)
    \/ \E a \in PosUsers : blockchain_reward_validator(a)
    \/ \E tx \in DirectTxs : blockchain_add_transaction(tx)
    \/ \E k \in Keys, r \in PosUsers, n \in TransferAmounts : send_transaction(k, r, n)
    \/ produce_block(1)

SpecPoS == InitPoS /\ [][NextPoS]_vars

-----------------------------------------------------------------------------
(* The P2P node: src/node/src/p2p.rs, src/node/src/db.rs, and              *)
(* Blockchain::from_blocks of smv-core                                     *)

\* the loop of Blockchain::from_blocks over one list of transactions: each
\* is applied to the state, and one that fails is passed over
RECURSIVE ReplayTxs(_, _, _)
ReplayTxs(bal, non, txs) ==
    IF txs = <<>> THEN [balances |-> bal, nonces |-> non]
    ELSE LET r == apply_transaction(bal, non, Head(txs))
         IN  ReplayTxs(r.balances, r.nonces, Tail(txs))

\* the transactions of a block sequence, block after block
RECURSIVE AllTransactions(_)
AllTransactions(bs) ==
    IF bs = <<>> THEN <<>>
    ELSE Head(bs).transactions \o AllTransactions(Tail(bs))

\* Blockchain::from_blocks: the blocks as given, the state replayed from an
\* empty State, an empty pending pool
from_blocks(bs) ==
    LET s == ReplayTxs([a \in Address |-> 0], [a \in Address |-> 0],
                       AllTransactions(bs))
    IN  [blocks |-> bs, balances |-> s.balances, nonces |-> s.nonces,
         pending_transactions |-> <<>>]

\* Database::save_blocks of the P2P node: one INSERT per block, in order,
\* each committed on its own; hash is the PRIMARY KEY of the table, so the
\* INSERT of a hash that is already there fails and ends the loop
RECURSIVE save_blocks(_, _)
save_blocks(rows, bs) ==
    IF bs = <<>> THEN [result |-> "Ok", rows |-> rows]
    ELSE IF \E i \in 1..Len(rows) : rows[i].hash = Head(bs).hash
         THEN [result |-> "SqliteFailure", rows |-> rows]
         ELSE save_blocks(Append(rows, Head(bs)), Tail(bs))

\* Database::load_blocks of the P2P node: SELECT ... ORDER BY timestamp ASC
\* (rows of equal timestamp stay in the order they were inserted)
RECURSIVE load_blocks(_)
load_blocks(rows) ==
    IF rows = <<>> THEN <<>>
    ELSE LET m == CHOOSE i \in 1..Len(rows) :
                     /\ \A j \in 1..Len(rows) : rows[i].timestamp <= rows[j].timestamp
                     /\ \A j \in 1..(i - 1) : rows[j].timestamp > rows[i].timestamp
         IN  <<rows[m]>> \o
             load_blocks([j \in 1..(Len(rows) - 1) |->
                             IF j < m THEN rows[j] ELSE rows[j + 1]])

\* P2P.head_hash and P2P.height: set by P2P::new and written nowhere else
\* hex::encode: the string of hex digits for the bytes
hex_encode(bytes) == <<"hex", bytes>>

\* a string given as text; "genesis" is no string of hex digits
text(s) == <<"text", s>>

head_hash == text("genesis")

height == 0

\* the transaction lists of the blocks found in a store: none, a transfer
\* of 0, a transfer of 1, and a transfer of 0 twice
StoredTxSeqs ==
    LET t0 == TransactionNew("k1", "a2", 0, 1)
        t1 == TransactionNew("k1", "a2", 1, 1)
    IN  {<<>>, <<t0>>, <<t1>>, <<t0, t0>>}

\* the blocks tables P2P::new can find: an empty one, a chain of one block
\* as Blockchain::new builds it, and a chain of such a block and one more
\* built on it at another time
Stores ==
    {<<>>}
    \cup { <<BlockNew(<<>>, ZeroHash, t)>> : t \in Times }
    \cup { <<BlockNew(<<>>, ZeroHash, t[1]),
             BlockNew(txs, BlockNew(<<>>, ZeroHash, t[1]).hash, t[2])>> :
           t \in {<<0, 1>>, <<1, 0>>}, txs \in StoredTxSeqs }

\* const PEER_TIMEOUT, in seconds
PEER_TIMEOUT == 300

\* the sleep of the sweeper task, in seconds
SweepInterval == 60

\* the step of the model's clock, in seconds
TickSeconds == 100

\* enum Network
NetworkVariants == {"Network::Testnet", "Network::Mainnet"}

\* Network::as_str
as_str(n) == IF n = "Network::Testnet" THEN "testnet" ELSE "mainnet"

\* Display for Network, which to_string() uses
to_string(n) == IF n = "Network::Mainnet" THEN "Mainnet" ELSE "Testnet"

\* NodeConfig.network of the node and of the nodes that connect to it
config_network == "Network::Mainnet"

\* the node's own network as the Hello handler compares it
network == as_str(config_network)

\* the network strings of a Hello: as_str and to_string of each variant
Networks == {as_str(n) : n \in NetworkVariants} \cup {to_string(n) : n \in NetworkVariants}

\* enum NodeType
NodeTypes == {"Seed", "Normal"}

\* the socket address accept() reports for a connection
peer_addr(c) == IF c = 1 THEN "p1" ELSE "p2"

\* the addresses a Hello can claim: the two observed ones and another
SocketAddrs == {"p1", "p2", "p9"}

\* the Hello that P2P::connect_to_peer builds on a node with this address,
\* node type and network: (address, node_type, network string)
connect_to_peer_hello(address, node_type, n) == <<address, node_type, to_string(n)>>

\* the (claimed address, node_type, network) of the Hello messages sent
\* on connection c
HelloInputs(c) ==
    {<<peer_addr(c), "Seed", "mainnet">>, <<peer_addr(c), "Normal", "mainnet">>,
     <<"p9", "Normal", "mainnet">>, <<peer_addr(c), "Seed", "testnet">>,
     connect_to_peer_hello(peer_addr(c), "Normal", config_network)}

NoPeers == [p \in {peer_addr(c) : c \in Conns} |-> <<>>]

\* ReadyState
ReadyStates == {"Starting", "Ready", "Running", "Failed"}

\* broadcast::Sender::send: an error when the channel has no receiver
\* (nothing is sent), else the value goes to the receivers
send(sent, receivers, value) ==
    IF receivers = 0 THEN [result |-> "SendError", sent |-> sent]
    ELSE [result |-> "Ok", sent |-> Append(sent, value)]

\* P2P::new over a store: Database::init, Database::load_blocks and
\* Blockchain::from_blocks; it returns Ok whatever the blocks were.  The
\* ready channel of Node::new has no receiver or one (subscribe_ready).
InitNode ==
    /\ program = "node"
    /\ dbBlocks \in Stores
    /\ LET ledger == from_blocks(load_blocks(dbBlocks))
       IN  /\ blocks = ledger.blocks
           /\ balances = ledger.balances
           /\ nonces = ledger.nonces
           /\ pending_transactions = ledger.pending_transactions
    /\ call = [NoCall EXCEPT !.op = "P2P::new"]
    /\ result = "Ok"
    /\ returned = <<>>
    /\ accepted = [a \in Address |-> <<>>]
    /\ okTxs = {}
    /\ mined = 0
    /\ users = <<>>
    /\ dbTxs = <<>>
    /\ ready_state = <<>>
    /\ subscribers \in {0, 1}
    /\ phase = "new"
    /\ listener = FALSE
    /\ outbound = <<>>
    /\ ledger_lock = <<>>
    /\ handlers = <<>>
    /\ clock = 0
    /\ next_sweep = 0
    /\ peers = NoPeers
    /\ conn = [c \in Conns |-> "none"]
    /\ reqs = [c \in Conns |-> <<>>]
    /\ out = [c \in Conns |-> <<>>]
    /\ handled = 0

\* what stops Node::ready: nothing, Node::init_database, or the bind of
\* P2P::init
ReadyFailures == {"none", "init_database", "init"}

\* what stops Node::run: nothing, P2P::connect_to_peer to the seed (a Normal
\* or Shallow node), or the bind of P2P::run
RunFailures == {"none", "connect_to_peer", "run"}

\* NodeConfig.seed_addr
seed_addr == "seed"

\* P2P::init: bind the listen address into the local `_listener`, which is
\* dropped (the socket closed) when init returns
init(binds) ==
    IF binds THEN [result |-> "Ok", listener |-> FALSE]
    ELSE [result |-> "Io", listener |-> FALSE]

\* P2P::connect_to_peer(addr) on a node with this address, type and network:
\* the Hello line is written into a BufWriter that is never flushed and is
\* dropped at the end of the arm, so the line (shorter than the buffer) does
\* not reach the stream; self.peers is not touched in either arm.
connect_to_peer(ps, delivered, address, node_type, n, addr, connects) ==
    IF connects
    THEN LET hello == connect_to_peer_hello(address, node_type, n)
             buffered == <<hello>>
             flushed == <<>>
         IN  [result |-> "Ok", peers |-> ps, outbound |-> delivered \o flushed]
    ELSE [result |-> "P2PError", peers |-> ps, outbound |-> delivered]

\* Node::ready: each send on the ready channel is followed by `?`
NodeReady(failure) ==
    /\ program = "node"
    /\ phase = "new"
    /\ call' = [NoCall EXCEPT !.op = "ready", !.level = failure]
    /\ LET s1 == send(ready_state, subscribers, "Starting")
           bound == init(failure # "init")
           s2 == send(s1.sent, subscribers, "Ready")
       IN  IF s1.result # "Ok"
           THEN /\ ready_state' = s1.sent
                /\ result' = s1.result
                /\ phase' = "stopped"
                /\ UNCHANGED listener
           ELSE IF failure = "init_database"
           THEN /\ ready_state' = s1.sent
                /\ result' = failure
                /\ phase' = "stopped"
                /\ UNCHANGED listener
           ELSE IF bound.result # "Ok"
           THEN /\ ready_state' = s1.sent
                /\ result' = failure
                /\ phase' = "stopped"
                /\ listener' = bound.listener
           ELSE /\ ready_state' = s2.sent
                /\ result' = s2.result
                /\ phase' = IF s2.result = "Ok" THEN "ready" ELSE "stopped"
                /\ listener' = bound.listener
    /\ UNCHANGED <<program, coreVars, posVars, subscribers, outbound, clock,
                   next_sweep, peers, conn, reqs, out, handled, lockVars>>

\* Node::run of a node of this type, up to the accept loop of P2P::run
NodeRun(node_type, failure) ==
    /\ program = "node"
    /\ phase = "ready"
    /\ node_type = "Seed" => failure # "connect_to_peer"
    /\ call' = [NoCall EXCEPT !.op = "run", !.level = failure, !.addr = node_type]
    /\ LET s3 == send(ready_state, subscribers, "Running")
           s4 == send(s3.sent, subscribers, "Failed")
           cp == IF node_type = "Seed"
                 THEN [result |-> "Ok", peers |-> peers, outbound |-> outbound]
                 ELSE connect_to_peer(peers, outbound, "p0", node_type,
                                      config_network, seed_addr,
                                      failure # "connect_to_peer")
       IN  IF s3.result # "Ok"
           THEN /\ ready_state' = s3.sent
                /\ result' = s3.result
                /\ phase' = "stopped"
                /\ UNCHANGED <<listener, peers, outbound>>
           ELSE /\ peers' = cp.peers
                /\ outbound' = cp.outbound
                /\ IF cp.result # "Ok" \/ failure = "run"
                   THEN /\ ready_state' = s4.sent
                        /\ result' = IF s4.result = "Ok" THEN failure ELSE s4.result
                        /\ phase' = "stopped"
                        /\ UNCHANGED listener
                   ELSE /\ ready_state' = s3.sent
                        /\ result' = "running"
                        /\ phase' = "running"
                        /\ listener' = TRUE
    /\ next_sweep' = clock + SweepInterval
    /\ UNCHANGED <<program, coreVars, posVars, subscribers, clock, conn, reqs,
                   out, handled, lockVars>>

\* time passes (followed over an empty blocks table only)
Tick ==
    /\ program = "node"
    /\ phase = "running"
    /\ dbBlocks = <<>>
    /\ clock < MaxTicks * TickSeconds
    /\ clock' = clock + TickSeconds
    /\ UNCHANGED <<program, call, result, coreVars, posVars, ready_state,
                   subscribers, phase, listener, outbound, lockVars, next_sweep, peers, conn, reqs, out, handled>>

\* a retain that also keeps an entry exactly PEER_TIMEOUT old
retain_le(ps, now) ==
    [p \in DOMAIN ps |->
        IF ps[p] # <<>> /\ now - ps[p][1].last_seen <= PEER_TIMEOUT THEN ps[p]
        ELSE <<>>]

\* peers.retain(|_, (_, last_seen)| last_seen.elapsed() < PEER_TIMEOUT)
retain(ps, now) ==
    [p \in DOMAIN ps |->
        IF ps[p] # <<>> /\ now - ps[p][1].last_seen < PEER_TIMEOUT THEN ps[p]
        ELSE <<>>]

\* P2P::run, the sweeper task: once its sleep is over it takes the peers
\* lock, drops the stale entries and sleeps again
Sweep ==
    /\ program = "node"
    /\ phase = "running"
    /\ clock >= next_sweep
    /\ call' = [NoCall EXCEPT !.op = "sweep", !.ts = clock]
    /\ result' = IF retain(peers, clock) # peers THEN "evicted" ELSE "Ok"
    /\ peers' = retain(peers, clock)
    /\ next_sweep' = clock + SweepInterval
    /\ UNCHANGED <<program, coreVars, posVars, ready_state, subscribers, phase, listener, outbound, lockVars,
                   clock, conn, reqs, out, handled>>

\* a line can be read from connection c: the accept loop runs, the
\* connection has not ended (over a blocks table that is not empty, one
\* connection is followed)
Readable(c) ==
    /\ program = "node"
    /\ phase = "running"
    /\ conn[c] # "closed"
    /\ handled < MaxLines
    /\ dbBlocks = <<>> \/ c = 1

\* handle_connection, one pass of the loop: read_line gives 0 bytes (the
\* peer has closed); the loop is left
Eof(c) ==
    /\ Readable(c)
    /\ call' = [NoCall EXCEPT !.op = "Eof", !.c = c]
    /\ result' = "closed"
    /\ conn' = [conn EXCEPT ![c] = "closed"]
    /\ handled' = handled + 1
    /\ UNCHANGED <<program, coreVars, posVars, ready_state, subscribers, phase, listener, outbound, lockVars,
                   clock, next_sweep, peers, reqs, out>>

\* a handler that passes over a line it cannot decode
BadLine_ignore(c) ==
    /\ Readable(c)
    /\ call' = [NoCall EXCEPT !.op = "BadLine", !.c = c]
    /\ result' = "Ok"
    /\ conn' = [conn EXCEPT ![c] = "open"]
    /\ handled' = handled + 1
    /\ UNCHANGED <<program, coreVars, posVars, ready_state, subscribers, phase, listener, outbound, lockVars,
                   clock, next_sweep, peers, reqs, out>>

\* handle_connection, one pass of the loop: the line is no Message (also a
\* Hello whose node_type is no NodeType); serde_json::from_str fails and
\* `?` ends handle_connection
BadLine(c) ==
    /\ Readable(c)
    /\ call' = [NoCall EXCEPT !.op = "BadLine", !.c = c]
    /\ result' = "closed"
    /\ conn' = [conn EXCEPT ![c] = "closed"]
    /\ handled' = handled + 1
    /\ UNCHANGED <<program, coreVars, posVars, ready_state, subscribers, phase, listener, outbound, lockVars,
                   clock, next_sweep, peers, reqs, out>>

\* handle_connection, one pass of the loop: a Message that is no request
\* (Status, Peers, TransactionResponse) falls to `_ => {}`
OtherMessage(c) ==
    /\ Readable(c)
    /\ call' = [NoCall EXCEPT !.op = "OtherMessage", !.c = c]
    /\ result' = "Ok"
    /\ conn' = [conn EXCEPT ![c] = "open"]
    /\ handled' = handled + 1
    /\ UNCHANGED <<program, coreVars, posVars, ready_state, subscribers, phase, listener, outbound, lockVars,
                   clock, next_sweep, peers, reqs, out>>

\* a Hello handler without the network check
Hello_nocheck(c, address, node_type, peer_network) ==
    /\ Readable(c)
    /\ call' = [NoCall EXCEPT !.op = "Hello", !.c = c, !.addr = address,
                              !.level = node_type, !.to = peer_network, !.ts = clock]
    /\ handled' = handled + 1
    /\ result' = "Ok"
    /\ conn' = [conn EXCEPT ![c] = "open"]
    /\ peers' = [peers EXCEPT ![peer_addr(c)] =
                    <<[node_type |-> node_type, last_seen |-> clock]>>]
    /\ UNCHANGED <<program, coreVars, posVars, ready_state, subscribers, phase, listener, outbound, lockVars,
                   clock, next_sweep, reqs, out>>

\* a Hello handler that leaves an entry it finds as it is
Hello_norefresh(c, address, node_type, peer_network) ==
    /\ Readable(c)
    /\ call' = [NoCall EXCEPT !.op = "Hello", !.c = c, !.addr = address,
                              !.level = node_type, !.to = peer_network, !.ts = clock]
    /\ handled' = handled + 1
    /\ IF peer_network # network
       THEN /\ result' = "closed"
            /\ conn' = [conn EXCEPT ![c] = "closed"]
            /\ UNCHANGED peers
       ELSE /\ result' = "Ok"
            /\ conn' = [conn EXCEPT ![c] = "open"]
            /\ peers' = IF peers[peer_addr(c)] # <<>> THEN peers
                        ELSE [peers EXCEPT ![peer_addr(c)] =
                                 <<[node_type |-> node_type, last_seen |-> clock]>>]
    /\ UNCHANGED <<program, coreVars, posVars, ready_state, subscribers, phase, listener, outbound, lockVars,
                   clock, next_sweep, reqs, out>>

\* handle_connection, Message::Hello
Hello(c, address, node_type, peer_network) ==
    /\ Readable(c)
    /\ call' = [NoCall EXCEPT !.op = "Hello", !.c = c, !.addr = address,
                              !.level = node_type, !.to = peer_network, !.ts = clock]
    /\ handled' = handled + 1
    /\ IF peer_network # network
       THEN /\ result' = "closed"
            /\ conn' = [conn EXCEPT ![c] = "closed"]
            /\ UNCHANGED peers
       ELSE /\ result' = "Ok"
            /\ conn' = [conn EXCEPT ![c] = "open"]
            /\ peers' = [peers EXCEPT ![peer_addr(c)] =
                            <<[node_type |-> node_type, last_seen |-> clock]>>]
    /\ UNCHANGED <<program, coreVars, posVars, ready_state, subscribers, phase, listener, outbound, lockVars,
                   clock, next_sweep, reqs, out>>

\* a GetPeers handler that writes nothing and reads on
GetPeers_silent(c) ==
    /\ Readable(c)
    /\ call' = [NoCall EXCEPT !.op = "GetPeers", !.c = c]
    /\ handled' = handled + 1
    /\ reqs' = [reqs EXCEPT ![c] = Append(@, "GetPeers")]
    /\ result' = "Ok"
    /\ conn' = [conn EXCEPT ![c] = "open"]
    /\ UNCHANGED <<program, coreVars, posVars, ready_state, subscribers, phase, listener, outbound, lockVars,
                   clock, next_sweep, peers, out>>

\* handle_connection, Message::GetPeers.  Message::Peers is a newtype
\* variant holding a Vec in an enum tagged with "type": serde_json cannot
\* write a sequence under an internal tag, so to_string fails and `?`
\* ends handle_connection before anything is written.
GetPeers(c) ==
    /\ Readable(c)
    /\ call' = [NoCall EXCEPT !.op = "GetPeers", !.c = c]
    /\ handled' = handled + 1
    /\ reqs' = [reqs EXCEPT ![c] = Append(@, "GetPeers")]
    /\ result' = "closed"
    /\ conn' = [conn EXCEPT ![c] = "closed"]
    /\ UNCHANGED <<program, coreVars, posVars, ready_state, subscribers, phase, listener, outbound, lockVars,
                   clock, next_sweep, peers, out>>

\* the `to` strings of a SendTransaction message: the hex of an address,
\* a string that is not hex ("zz"), hex of another length ("ab")
ToStrings == {"a1", "a2", "zz", "ab"}

\* hex::decode(&to) and then try_into an Address
decode_address(to) == IF to \in Address THEN <<to>> ELSE <<>>

\* handle_connection, Message::SendTransaction.  generate_keypair gives a
\* key the state holds nothing for.  A `to` that does not decode ends the
\* connection without a response; so does a failure of save_blocks.
SendTransaction(c, k, to, amount) ==
    /\ Readable(c)
    /\ balances[public_key_to_address(k)] = 0
    /\ nonces[public_key_to_address(k)] = 0
    /\ handled' = handled + 1
    /\ reqs' = [reqs EXCEPT ![c] = Append(@, "SendTransaction")]
    /\ LET sender == public_key_to_address(k)
           receiver_address == decode_address(to)
       IN  /\ call' = [NoCall EXCEPT !.op = "SendTransaction", !.addr = sender,
                                     !.to = to, !.n = amount, !.c = c]
           /\ IF receiver_address = <<>>
              THEN /\ result' = "closed"
                   /\ conn' = [conn EXCEPT ![c] = "closed"]
                   /\ UNCHANGED <<coreVars, dbBlocks, out>>
              ELSE LET expected_nonce == get_nonce(nonces, sender)
                       transaction == TransactionNew(k, receiver_address[1], amount,
                                                     expected_nonce)
                       v == validate(transaction, "Full",
                                     <<[balances |-> balances, nonces |-> nonces]>>)
                       r == IF v = "Ok" /\ TransactionVerify(transaction) = "Ok"
                            THEN apply_transaction(balances, nonces, transaction)
                            ELSE [result |-> "Err", balances |-> balances,
                                  nonces |-> nonces]
                       response == IF v # "Ok" THEN "Err(validation error)"
                                   ELSE IF r.result = "Ok" THEN "Ok(hash)"
                                   ELSE "Err(error)"
                       saved == save_blocks(dbBlocks, blocks)
                   IN  /\ balances' = r.balances
                       /\ nonces' = r.nonces
                       /\ accepted' = Accept(accepted, r, transaction)
                       /\ okTxs' = IF r.result = "Ok" THEN okTxs \cup {transaction}
                                   ELSE okTxs
                       /\ pending_transactions' =
                             IF r.result = "Ok"
                             THEN Append(pending_transactions, transaction)
                             ELSE pending_transactions
                       /\ dbBlocks' = saved.rows
                       /\ result' = IF saved.result = "Ok" THEN response ELSE "closed"
                       /\ returned' = IF saved.result = "Ok" /\ r.result = "Ok"
                                      THEN <<TransactionHash(transaction)>>
                                      ELSE returned
                       /\ conn' = [conn EXCEPT ![c] = IF saved.result = "Ok" THEN "open"
                                                      ELSE "closed"]
                       /\ out' = IF saved.result = "Ok"
                                 THEN [out EXCEPT ![c] =
                                          Append(@, [type |-> "TransactionResponse",
                                                     body |-> response])]
                                 ELSE out
                       /\ UNCHANGED <<blocks, mined>>
    /\ UNCHANGED <<program, users, dbTxs, ready_state, subscribers, phase, listener, outbound, lockVars, clock,
                   next_sweep, peers>>

\* handle_connection, Message::GetStatus: the reply carries the two fields
GetStatus(c) ==
    /\ Readable(c)
    /\ call' = [NoCall EXCEPT !.op = "GetStatus", !.c = c]
    /\ handled' = handled + 1
    /\ reqs' = [reqs EXCEPT ![c] = Append(@, "GetStatus")]
    /\ result' = "Status"
    /\ returned' = <<[head_hash |-> head_hash, height |-> height]>>
    /\ conn' = [conn EXCEPT ![c] = "open"]
    /\ out' = [out EXCEPT ![c] =
                  Append(@, [type |-> "Status",
                             body |-> [head_hash |-> head_hash, height |-> height]])]
    /\ UNCHANGED <<program, balances, nonces, blocks, pending_transactions,
                   accepted, okTxs, mined, posVars, ready_state, subscribers,
                   phase, listener, outbound, lockVars, clock, next_sweep, peers>>

NextNode ==
    \/ \E failure \in ReadyFailures : NodeReady(failure)
    \/ \E node_type \in NodeTypes, failure \in RunFailures : NodeRun(node_type, failure)
    \/ Tick
    \/ Sweep
    \/ \E c \in Conns : Eof(c)
    \/ \E c \in Conns : BadLine(c)
    \/ \E c \in Conns : OtherMessage(c)
    \/ \E c \in Conns : \E h \in HelloInputs(c) : Hello(c, h[1], h[2], h[3])
    \/ \E c \in Conns : GetPeers(c)
    \/ \E c \in Conns, k \in Keys, to \in ToStrings, amount \in {0, 1} :
          SendTransaction(c, k, to, amount)
    \/ \E c \in Conns : GetStatus(c)

SpecNode == InitNode /\ [][NextNode]_vars

-----------------------------------------------------------------------------
\* The SendTransaction arm of handle_connection step by step: the handlers
\* of the connections run as tasks of their own and meet at the
\* Mutex<Blockchain>.  A tokio Mutex hands the lock to the tasks in the order
\* in which they asked for it.

\* a handler at read_line
HandlerAtRead ==
    [pc |-> "read", to |-> "none", amount |-> 0, tx |-> <<>>, seen |-> <<>>,
     verdict |-> "none", response |-> "none"]

\* the handler holds the ledger lock
Holds(c) == ledger_lock # <<>> /\ Head(ledger_lock) = c

\* the handler has asked for the ledger lock and another one holds it
Waits(c) ==
    /\ \E i \in 1..Len(ledger_lock) : ledger_lock[i] = c
    /\ Head(ledger_lock) # c

\* a running node over a store, with its connections accepted
InitHandlers ==
    /\ program = "handlers"
    /\ dbBlocks \in Stores
    /\ LET ledger == from_blocks(load_blocks(dbBlocks))
       IN  /\ blocks = ledger.blocks
           /\ balances = ledger.balances
           /\ nonces = ledger.nonces
           /\ pending_transactions = ledger.pending_transactions
    /\ call = [NoCall EXCEPT !.op = "P2P::run"]
    /\ result = "Ok"
    /\ returned = <<>>
    /\ accepted = [a \in Address |-> <<>>]
    /\ okTxs = {}
    /\ mined = 0
    /\ users = <<>>
    /\ dbTxs = <<>>
    /\ ready_state = <<"Starting", "Ready", "Running">>
    /\ subscribers = 1
    /\ phase = "running"
    /\ listener = TRUE
    /\ outbound = <<>>
    /\ clock = 0
    /\ next_sweep = SweepInterval
    /\ peers = NoPeers
    /\ conn = [c \in Conns |-> "open"]
    /\ reqs = [c \in Conns |-> <<>>]
    /\ out = [c \in Conns |-> <<>>]
    /\ handled = 0
    /\ ledger_lock = <<>>
    /\ handlers = [c \in Conns |-> HandlerAtRead]

\* read_line gives a SendTransaction; the handler comes to
\* `blockchain.lock().await` and asks for the lock
ReadSendTransaction(c, to, amount) ==
    /\ program = "handlers"
    /\ handlers[c].pc = "read"
    /\ conn[c] = "open"
    /\ handled < MaxLines
    /\ handled' = handled + 1
    /\ reqs' = [reqs EXCEPT ![c] = Append(@, "SendTransaction")]
    /\ call' = [NoCall EXCEPT !.op = "SendTransaction::lock", !.to = to, !.n = amount,
                              !.c = c]
    /\ result' = "Pending"
    /\ handlers' = [handlers EXCEPT ![c] =
                       [HandlerAtRead EXCEPT !.pc = "lock", !.to = to, !.amount = amount]]
    /\ ledger_lock' = Append(ledger_lock, c)
    /\ UNCHANGED <<program, coreVars, posVars, ready_state, subscribers, phase,
                   listener, outbound, clock, next_sweep, peers, conn, out>>

\* a handler that goes on without having been given the lock
LockedValidate_nowait(c, k) ==
    /\ program = "handlers"
    /\ handlers[c].pc = "lock"
    /\ balances[public_key_to_address(k)] = 0
    /\ nonces[public_key_to_address(k)] = 0
    /\ LET sender == public_key_to_address(k)
           receiver_address == decode_address(handlers[c].to)
       IN  /\ call' = [NoCall EXCEPT !.op = "SendTransaction::validate", !.addr = sender,
                                     !.to = handlers[c].to, !.n = handlers[c].amount,
                                     !.c = c]
           /\ IF receiver_address = <<>>
              THEN /\ result' = "closed"
                   /\ conn' = [conn EXCEPT ![c] = "closed"]
                   /\ handlers' = [handlers EXCEPT ![c].pc = "done"]
                   /\ ledger_lock' = Tail(ledger_lock)
              ELSE LET transaction == TransactionNew(k, receiver_address[1],
                                                     handlers[c].amount,
                                                     get_nonce(nonces, sender))
                       v == validate(transaction, "Full",
                                     <<[balances |-> balances, nonces |-> nonces]>>)
                   IN  /\ result' = v
                       /\ handlers' = [handlers EXCEPT
                              ![c].pc = "validated", ![c].tx = <<transaction>>,
                              ![c].seen = <<[balances |-> balances, nonces |-> nonces]>>,
                              ![c].verdict = v]
                       /\ UNCHANGED <<conn, ledger_lock>>
    /\ UNCHANGED <<program, coreVars, posVars, ready_state, subscribers, phase,
                   listener, outbound, clock, next_sweep, peers, reqs, out, handled>>

\* the lock is given to the handler: generate_keypair (a key the state
\* holds nothing for), the decoding of `to` (a failure returns from the
\* handler, which drops the guard), Transaction::new and validate(Full)
LockedValidate(c, k) ==
    /\ program = "handlers"
    /\ handlers[c].pc = "lock"
    /\ Holds(c)
    /\ balances[public_key_to_address(k)] = 0
    /\ nonces[public_key_to_address(k)] = 0
    /\ LET sender == public_key_to_address(k)
           receiver_address == decode_address(handlers[c].to)
       IN  /\ call' = [NoCall EXCEPT !.op = "SendTransaction::validate", !.addr = sender,
                                     !.to = handlers[c].to, !.n = handlers[c].amount,
                                     !.c = c]
           /\ IF receiver_address = <<>>
              THEN /\ result' = "closed"
                   /\ conn' = [conn EXCEPT ![c] = "closed"]
                   /\ handlers' = [handlers EXCEPT ![c].pc = "done"]
                   /\ ledger_lock' = Tail(ledger_lock)
              ELSE LET transaction == TransactionNew(k, receiver_address[1],
                                                     handlers[c].amount,
                                                     get_nonce(nonces, sender))
                       v == validate(transaction, "Full",
                                     <<[balances |-> balances, nonces |-> nonces]>>)
                   IN  /\ result' = v
                       /\ handlers' = [handlers EXCEPT
                              ![c].pc = "validated", ![c].tx = <<transaction>>,
                              ![c].seen = <<[balances |-> balances, nonces |-> nonces]>>,
                              ![c].verdict = v]
                       /\ UNCHANGED <<conn, ledger_lock>>
    /\ UNCHANGED <<program, coreVars, posVars, ready_state, subscribers, phase,
                   listener, outbound, clock, next_sweep, peers, reqs, out, handled>>

\* still under the same guard: add_transaction when validate returned Ok,
\* and the response; the guard is dropped at the end of the block and the
\* handler comes to the `blockchain.lock().await` of save_blocks
LockedAdd(c) ==
    /\ program = "handlers"
    /\ handlers[c].pc = "validated"
    /\ Holds(c)
    /\ LET transaction == handlers[c].tx[1]
           v == handlers[c].verdict
           r == IF v = "Ok" /\ TransactionVerify(transaction) = "Ok"
                THEN apply_transaction(balances, nonces, transaction)
                ELSE [result |-> "Err", balances |-> balances, nonces |-> nonces]
           response == IF v # "Ok" THEN "Err(validation error)"
                       ELSE IF r.result = "Ok" THEN "Ok(hash)"
                       ELSE "Err(error)"
       IN  /\ call' = [NoCall EXCEPT !.op = "SendTransaction::add", !.tx = <<transaction>>,
                                     !.c = c]
           /\ result' = response
           /\ balances' = r.balances
           /\ nonces' = r.nonces
           /\ accepted' = Accept(accepted, r, transaction)
           /\ okTxs' = IF r.result = "Ok" THEN okTxs \cup {transaction} ELSE okTxs
           /\ pending_transactions' =
                 IF r.result = "Ok" THEN Append(pending_transactions, transaction)
                 ELSE pending_transactions
           /\ returned' = IF r.result = "Ok" THEN <<TransactionHash(transaction)>>
                          ELSE returned
           /\ handlers' = [handlers EXCEPT ![c].pc = "save", ![c].response = response]
    /\ ledger_lock' = Append(Tail(ledger_lock), c)
    /\ UNCHANGED <<program, blocks, mined, posVars, ready_state, subscribers, phase,
                   listener, outbound, clock, next_sweep, peers, conn, reqs, out,
                   handled>>

\* the lock is given again: save_blocks of the blocks of the ledger under
\* a guard dropped at the end of the statement; a failure returns from the
\* handler, else the response is written and flushed
LockedSave(c) ==
    /\ program = "handlers"
    /\ handlers[c].pc = "save"
    /\ Holds(c)
    /\ LET saved == save_blocks(dbBlocks, blocks)
       IN  /\ call' = [NoCall EXCEPT !.op = "SendTransaction::save", !.c = c]
           /\ dbBlocks' = saved.rows
           /\ result' = IF saved.result = "Ok" THEN handlers[c].response ELSE "closed"
           /\ conn' = [conn EXCEPT ![c] = IF saved.result = "Ok" THEN "open"
                                          ELSE "closed"]
           /\ out' = IF saved.result = "Ok"
                     THEN [out EXCEPT ![c] =
                              Append(@, [type |-> "TransactionResponse",
                                         body |-> handlers[c].response])]
                     ELSE out
           /\ handlers' = [handlers EXCEPT ![c] =
                              IF saved.result = "Ok" THEN HandlerAtRead
                              ELSE [HandlerAtRead EXCEPT !.pc = "done"]]
    /\ ledger_lock' = Tail(ledger_lock)
    /\ UNCHANGED <<program, coreVars, users, dbTxs, ready_state, subscribers, phase,
                   listener, outbound, clock, next_sweep, peers, reqs, handled>>

NextHandlers ==
    \/ \E c \in Conns, to \in ToStrings, amount \in {0, 1} :
          ReadSendTransaction(c, to, amount)
    \/ \E c \in Conns, k \in Keys : LockedValidate(c, k)
    \/ \E c \in Conns : LockedAdd(c)
    \/ \E c \in Conns : LockedSave(c)

\* the runtime goes on polling a task that can run, and the lock is handed
\* over in the order of asking
SpecHandlers ==
    /\ InitHandlers
    /\ [][NextHandlers]_vars
    /\ \A c \in Conns :
          /\ WF_vars(\E k \in Keys : LockedValidate(c, k))
          /\ WF_vars(LockedAdd(c))
          /\ WF_vars(LockedSave(c))

\* the smv-core ledger on its own or inside the P2P node: a behaviour runs
\* one of them
InitChain == InitLedger \/ InitNode

NextChain == Next \/ NextNode

SpecChain == InitChain /\ [][NextChain]_vars

\* State and the stake-based node side by side: a behaviour runs one of them
InitBoth == InitState \/ InitPoS

NextBoth == NextState \/ NextPoS

SpecBoth == InitBoth /\ [][NextBoth]_vars

-----------------------------------------------------------------------------
(* Claims about State and the smv-core ledger *)

Last(seq) == seq[Len(seq)]

LastAccepted(a) == IF accepted[a] = <<>> THEN 0 ELSE Last(accepted[a])

\* C1: for every sender the nonces State::apply_transaction accepts are
\* 1, 2, 3, ... in that order, and a transaction whose nonce is not the
\* sender's last accepted nonce plus one is rejected with InvalidNonce and
\* leaves balances and nonces as they were.
C1_NonceMonotonicity ==
    [][ /\ \A a \in Address :
              accepted'[a] = [i \in 1..Len(accepted'[a]) |-> i]
        /\ (/\ call'.op = "apply_transaction"
            /\ call'.tx[1].nonce # LastAccepted(call'.tx[1].sender) + 1)
           => (result' = "InvalidNonce" /\ UNCHANGED <<balances, nonces>>)
      ]_vars

\* two nonces accepted for a sender, and then a call rejected for its nonce
C1_Witness ==
    /\ accepted["a1"] = <<1, 2>>
    /\ call.op = "apply_transaction"
    /\ result = "InvalidNonce"

UnchangedLedger == UNCHANGED <<blocks, pending_transactions, balances, nonces>>

\* C2: once add_transaction(tx) has returned Ok, add_transaction of the
\* same tx returns InvalidNonce and changes neither the blocks, the
\* pending pool, the balances nor the nonces, mined since or not.
C2_ReplayRejected ==
    [][ (call'.op = "add_transaction" /\ call'.tx[1] \in okTxs)
        => (result' = "InvalidNonce" /\ UnchangedLedger) ]_vars

\* a transaction that sits in a mined block was handed over again
C2_Witness ==
    /\ call.op = "add_transaction"
    /\ call.tx[1] \in okTxs
    /\ result = "InvalidNonce"
    /\ \E i \in 2..Len(blocks) : \E j \in 1..Len(blocks[i].transactions) :
          blocks[i].transactions[j] = call.tx[1]

\* C3: add_transaction of a validly signed transaction that carries the
\* expected nonce and an amount above the sender's balance returns
\* InsufficientBalance and changes nothing of the ledger.
C3_InsufficientBalance ==
    [][ (/\ call'.op = "add_transaction"
         /\ TransactionVerify(call'.tx[1]) = "Ok"
         /\ call'.tx[1].nonce = nonces[call'.tx[1].sender] + 1
         /\ call'.tx[1].amount > balances[call'.tx[1].sender])
        => (result' = "InsufficientBalance" /\ UnchangedLedger) ]_vars

\* a sender that holds 1 was refused an amount of 2
C3_Witness ==
    /\ call.op = "add_transaction"
    /\ result = "InsufficientBalance"
    /\ balances[call.tx[1].sender] = 1
    /\ call.tx[1].amount = 2

\* C4: when add_transaction(tx) returns Ok the sender's balance is down by
\* tx.amount, the receiver's is up by tx.amount, the sender's nonce is
\* tx.nonce, tx is the last pending transaction and nothing else changed.
C4_AcceptedEffect ==
    [][ (call'.op = "add_transaction" /\ result' = "Ok")
        => LET tx == call'.tx[1]
           IN  /\ balances'[tx.sender] = balances[tx.sender] - tx.amount
               /\ balances'[tx.receiver] = balances[tx.receiver] + tx.amount
               /\ nonces'[tx.sender] = tx.nonce
               /\ pending_transactions' = Append(pending_transactions, tx)
               /\ \A a \in Address \ {tx.sender, tx.receiver} :
                     balances'[a] = balances[a]
               /\ \A a \in Address \ {tx.sender} : nonces'[a] = nonces[a]
      ]_vars

\* C5: every mine_block appends one block that holds the pending
\* transactions in their order, empties the pool, returns that block and
\* leaves balances and nonces alone; after n calls that returned Ok the
\* chain has n + 1 blocks.
C5_MineBlock ==
    [][ /\ Len(blocks') = mined' + 1
        /\ call'.op = "mine_block"
           => /\ Len(blocks') = Len(blocks) + 1
              /\ SubSeq(blocks', 1, Len(blocks)) = blocks
              /\ Last(blocks').transactions = pending_transactions
              /\ pending_transactions' = <<>>
              /\ returned' = <<Last(blocks')>>
              /\ UNCHANGED <<balances, nonces>>
      ]_vars

\* C6: in every reachable ledger each block names its predecessor's hash
\* and verify_chain returns Ok.
C6_ChainLinkage ==
    /\ \A i \in 2..Len(blocks) : blocks[i].previous_hash = blocks[i - 1].hash
    /\ VerifyChainFrom(blocks, 1) = "Ok"

-----------------------------------------------------------------------------
(* Claims about the stake-based node *)

RECURSIVE SumBalances(_, _)
SumBalances(bal, addrs) ==
    IF addrs = {} THEN 0
    ELSE LET a == CHOOSE x \in addrs : TRUE
         IN  bal[a] + SumBalances(bal, addrs \ {a})

\* every stored transaction pays somebody other than its sender
AllTransfersToOthers(rows) ==
    \A i \in 1..Len(rows) : sender_address(rows[i].tx) # rows[i].tx.payload.receiver

\* C7: State::apply_transaction leaves the sum of all balances as it was,
\* accepted or rejected; a produce_block over transactions that all have
\* sender # receiver (apply_block, then the reward when the block is
\* stored) changes the sum of all users' balances by the proposer's reward
\* when it returns Ok and by nothing when it fails, and changes no stake.
C7_Conservation ==
    [][ /\ call'.op = "apply_transaction"
           => SumBalances(balances', Address) = SumBalances(balances, Address)
        /\ (call'.op = "produce_block" /\ AllTransfersToOthers(dbTxs))
           => /\ get_total_stake(users') = get_total_stake(users)
              /\ TotalBalance(users') = TotalBalance(users) +
                    (IF result' = "Ok"
                     THEN RewardOf(users[call'.addr].stake, get_total_stake(users))
                     ELSE 0)
      ]_vars

\* a block with a transfer between two users was stored and its proposer
\* was paid a reward of 1
C7_Witness ==
    /\ call.op = "produce_block"
    /\ result = "Ok"
    /\ Len(dbBlocks) = 1
    /\ Len(dbTxs) = 2
    /\ AllTransfersToOthers(dbTxs)
    /\ users["a2"].balance = 3
    /\ Supply(users) = 5

\* C8: a produce_block that returns Ok leaves the sum of balance + stake
\* over all users exactly 1 above what it was, whoever was selected.
C8_ProduceBlockTotal ==
    [][ (call'.op = "produce_block" /\ result' = "Ok")
        => Supply(users') = Supply(users) + 1 ]_vars

SlashOps == {"Node::slash_validator", "Blockchain::slash_validator"}

\* C10: slash_validator(addr, penalty), of Node or of Blockchain, sets the
\* stake of a registered user to max(stake - penalty, 0) and changes
\* neither that user's balance nor any other user; for an address that is
\* not registered it returns an error and changes nothing.
C10_SlashSaturates ==
    [][ call'.op \in SlashOps
        => /\ UNCHANGED <<dbBlocks, dbTxs>>
           /\ IF call'.addr \in DOMAIN users
              THEN /\ result' = "Ok"
                   /\ users' = [users EXCEPT ![call'.addr].stake =
                          IF @ - call'.n > 0 THEN @ - call'.n ELSE 0]
              ELSE /\ result' # "Ok"
                   /\ users' = users
      ]_vars

\* a penalty of 2 took a stake that was below it down to 0: the user is
\* alone, holds no stake and still holds the rest of the initial balance
C10_Witness ==
    /\ call.op = "Node::slash_validator"
    /\ result = "Ok"
    /\ call.n = 2
    /\ DOMAIN users = {call.addr}
    /\ users[call.addr] = [balance |-> 1, stake |-> 0]

\* C11: select_validator fails when no user has a stake above 0, users or
\* no users, and otherwise returns a user whose stake is above 0; when it
\* fails inside produce_block no block or transaction is stored and no
\* balance or stake changes.
C11_SelectValidator ==
    [][ call'.op = "produce_block"
        => IF \A a \in DOMAIN users : users[a].stake = 0
           THEN /\ result' = "No users with stakes available"
                /\ call'.addr = "none"
                /\ UNCHANGED <<users, dbBlocks, dbTxs>>
           ELSE /\ result' # "No users with stakes available"
                /\ call'.addr \in DOMAIN users
                /\ users[call'.addr].stake > 0
      ]_vars

\* produce_block failed for want of a stake although two users are
\* registered and a transaction is waiting
C11_Witness ==
    /\ call.op = "produce_block"
    /\ result = "No users with stakes available"
    /\ DOMAIN users = {"a1", "a2"}
    /\ Len(dbTxs) = 1
    /\ dbBlocks = <<>>

\* C12: Node::send_transaction from a registered sender to another address
\* is refused when the amount is above the sender's balance (what is left
\* after staking), storing nothing and changing no user, and is accepted
\* when the amount is at most that balance: the signed transfer becomes
\* the last stored transaction.
C12_SendTransactionBalance ==
    [][ (/\ call'.op = "send_transaction"
         /\ call'.addr \in DOMAIN users
         /\ call'.to # call'.addr)
        => /\ UNCHANGED <<users, dbBlocks>>
           /\ IF call'.n > users[call'.addr].balance
              THEN result' = "Insufficient balance" /\ UNCHANGED dbTxs
              ELSE /\ result' = "Ok"
                   /\ Len(dbTxs') = Len(dbTxs) + 1
                   /\ SubSeq(dbTxs', 1, Len(dbTxs)) = dbTxs
                   /\ LET tx == dbTxs'[Len(dbTxs')].tx
                      IN  /\ PosVerify(tx)
                          /\ sender_address(tx) = call'.addr
                          /\ tx.payload.receiver = call'.to
                          /\ tx.payload.amount = call'.n
      ]_vars

\* a sender that staked its whole balance was refused a transfer of 1
C12_Witness ==
    /\ call.op = "send_transaction"
    /\ result = "Insufficient balance"
    /\ call.n = 1
    /\ users[call.addr] = [balance |-> 0, stake |-> 2]
    /\ dbTxs = <<>>

\* C13: a transaction whose sender is its receiver is refused when it is
\* submitted, by Blockchain::add_transaction of smv-core and by
\* Node::send_transaction, and the refused submission stores no
\* transaction and changes no balance and no nonce.
C13_SelfTransferRejected ==
    [][ /\ (call'.op = "add_transaction" /\ call'.tx[1].sender = call'.tx[1].receiver)
           => (result' # "Ok" /\ UnchangedLedger)
        /\ (call'.op = "send_transaction" /\ call'.addr = call'.to)
           => (result' # "Ok" /\ UNCHANGED <<users, dbBlocks, dbTxs>>)
      ]_vars

\* every stored transaction is already part of a stored block: the table
\* is empty and so is the chain, or the table is what the last add_block
\* left of it, the transactions of that block followed by their copies
NoPendingTransactions ==
    IF dbBlocks = <<>> THEN dbTxs = <<>>
    ELSE LET half == Len(dbTxs) \div 2
             included == get_all_transactions(SubSeq(dbTxs, 1, half))
         IN  /\ Len(dbTxs) = 2 * half
             /\ compute_merkle_root(included) = dbBlocks[Len(dbBlocks)].merkle_root
             /\ \A i \in 1..half :
                   dbTxs[half + i] = [tx |-> included[i], verified |-> TRUE]

\* C14: with no pending transaction and a user whose stake is above 0,
\* produce_block returns Ok and stores exactly one more block, and the only
\* balance that changes is the proposer's, by the reward.
C14_ProduceEmptyBlock ==
    [][ (/\ call'.op = "produce_block"
         /\ NoPendingTransactions
         /\ \E a \in DOMAIN users : users[a].stake > 0)
        => /\ result' = "Ok"
           /\ Len(dbBlocks') = Len(dbBlocks) + 1
           /\ SubSeq(dbBlocks', 1, Len(dbBlocks)) = dbBlocks
           /\ users' = [users EXCEPT ![call'.addr].balance =
                  @ + RewardOf(users[call'.addr].stake, get_total_stake(users))]
      ]_vars

\* C15: validate(Full, state) returns Ok exactly when the transaction
\* passes verify(), the sender's balance covers the amount and the nonce
\* is the sender's stored nonce plus 1; a transaction that verifies gets
\* InsufficientBalance or InvalidNonce otherwise.
C15_FullValidation ==
    [][ (call'.op = "validate" /\ call'.level = "Full" /\ call'.n = 1)
        => LET tx == call'.tx[1]
               passes == /\ TransactionVerify(tx) = "Ok"
                         /\ balances[tx.sender] >= tx.amount
                         /\ tx.nonce = nonces[tx.sender] + 1
           IN  /\ result' = "Ok" <=> passes
               /\ (TransactionVerify(tx) = "Ok" /\ ~passes)
                  => result' \in {"InsufficientBalance", "InvalidNonce"}
      ]_vars

\* the transaction carries the signature its key gives to its fields as
\* they are now
SignedAsIs(tx) ==
    tx.signature =
        sign(tx.sender_public_key,
             hash(create_message(tx.sender, tx.receiver, tx.amount, tx.nonce)))

\* C16: Transaction::verify (validate at level Light) returns Ok for every
\* transaction as Transaction::new built it; InvalidSignature when the
\* public key bytes do not decode; InvalidSenderAddress when the key
\* decodes and its address is not the sender, whatever the signature;
\* InvalidSignature when key and sender agree and the signature is not
\* over the sender, receiver, amount and nonce the transaction has now.
C16_VerifyClassifies ==
    [][ (call'.op = "validate" /\ call'.level = "Light")
        => LET tx == call'.tx[1]
           IN  /\ tx \in SignedTxs => result' = "Ok"
               /\ result' =
                    IF tx.sender_public_key \notin Keys THEN "InvalidSignature"
                    ELSE IF public_key_to_address(tx.sender_public_key) # tx.sender
                         THEN "InvalidSenderAddress"
                    ELSE IF ~SignedAsIs(tx) THEN "InvalidSignature"
                    ELSE "Ok"
      ]_vars

\* a transaction whose sender was changed after signing, so that neither
\* the address nor the signature fits, was refused for its address
C16_Witness ==
    /\ call.op = "validate"
    /\ call.level = "Light"
    /\ call.tx[1].sender_public_key \in Keys
    /\ public_key_to_address(call.tx[1].sender_public_key) # call.tx[1].sender
    /\ ~SignedAsIs(call.tx[1])
    /\ result = "InvalidSenderAddress"

\* what C17 says of one block that Block::new returned
VerifiesAsBuilt(b) ==
    /\ b.hash = calculate_hash(b)
    /\ LeadingZeroBytes(b.hash) >= DIFFICULTY
    /\ VerifyAll(b.transactions) = "Ok" => BlockVerify(b) = "Ok"

\* C17: every block Block::new returns, the genesis block of the ledger
\* and the block a mine_block would build now at any time, has a stored
\* hash that is calculate_hash() of its fields and starts with DIFFICULTY
\* zero bytes, and passes Block::verify when its transactions verify.
C17_BlockNewVerifies ==
    /\ program = "ledger" => VerifiesAsBuilt(blocks[1])
    /\ program = "ledger" =>
          \A now \in Times :
              VerifiesAsBuilt(BlockNew(pending_transactions,
                                       blocks[Len(blocks)].hash, now))

-----------------------------------------------------------------------------
(* Claims about the P2P node and the rebuild of a ledger from blocks *)

\* C18: a node constructed over an empty persistence store holds a ledger
\* of exactly one genesis block (previous_hash of 32 zero bytes, no
\* transactions), an empty pending pool and an empty state.
C18_GenesisOnEmptyStore ==
    (program = "node" /\ call.op = "P2P::new" /\ dbBlocks = <<>>)
        => /\ Len(blocks) = 1
           /\ blocks[1].previous_hash = ZeroHash
           /\ blocks[1].transactions = <<>>
           /\ pending_transactions = <<>>
           /\ \A a \in Address : balances[a] = 0 /\ nonces[a] = 0

\* C19: append-only history: over add_transaction, mine_block, verify_chain
\* and the handling of SendTransaction and GetStatus, the block sequence
\* before the operation is a prefix of the block sequence after it.
C19_AppendOnly ==
    [][/\ Len(blocks') >= Len(blocks)
       /\ SubSeq(blocks', 1, Len(blocks)) = blocks]_vars

\* mine_block has appended a block of transactions to a chain of two blocks
C19_Witness ==
    /\ program = "ledger"
    /\ call.op = "mine_block"
    /\ result = "Ok"
    /\ Len(blocks) = 3
    /\ blocks[3].transactions # <<>>

\* some transaction of txs fails apply_transaction when txs are replayed
\* in order from the given state
RECURSIVE ReplayFailure(_, _, _)
ReplayFailure(bal, non, txs) ==
    IF txs = <<>> THEN FALSE
    ELSE LET r == apply_transaction(bal, non, Head(txs))
         IN  \/ r.result # "Ok"
             \/ ReplayFailure(r.balances, r.nonces, Tail(txs))

\* C20: rebuilding a ledger from blocks reports a fatal chain-invalid error
\* whenever a contained transaction fails apply_transaction during the
\* replay; it never skips the transaction and returns a ledger.
C20_RebuildReportsFailure ==
    (/\ program = "node"
     /\ call.op = "P2P::new"
     /\ ReplayFailure([a \in Address |-> 0], [a \in Address |-> 0],
                      AllTransactions(load_blocks(dbBlocks))))
        => result # "Ok"

\* C21: the state is a function of the blocks: for a ledger reached from
\* Blockchain::new (no account funded from outside) by add_transaction and
\* mine_block, with an empty pending pool, from_blocks of its blocks has the
\* balance and the nonce of the ledger's state for every address.
C21_StateFromBlocks ==
    (/\ program = "ledger"
     /\ \A a \in Address : balances[a] = 0
     /\ pending_transactions = <<>>)
        => /\ from_blocks(blocks).balances = balances
           /\ from_blocks(blocks).nonces = nonces

\* a step that reads a line: the handler named op has read it from
\* connection call'.c
Handles(op) == handled' = handled + 1 /\ call'.op = op

\* C22: a Hello whose network differs from the node's closes the
\* connection and leaves the peer table as it is (no entry added, none
\* refreshed); no later line of a closed connection is handled.
C22_NetworkMismatch ==
    [][/\ (Handles("Hello") /\ call'.to # network)
          => /\ conn'[call'.c] = "closed"
             /\ peers' = peers
             /\ out' = out
       /\ \A c \in Conns :
             (program = "node" /\ conn[c] = "closed" /\ handled' # handled)
                => call'.c # c]_vars

\* a Hello of another network has closed a connection whose peer is in
\* the table
C22_Witness ==
    /\ program = "node"
    /\ call.op = "Hello"
    /\ call.to # network
    /\ conn[call.c] = "closed"
    /\ peers[peer_addr(call.c)] # <<>>

\* C23: a Hello of the node's network sets the entry of the observed
\* remote address (never the claimed one) to the declared role and
\* last_seen = now, whatever entry was there; the connection stays open
\* also when the claimed address is another one; the ledger is untouched.
C23_HelloAccepted ==
    [][(Handles("Hello") /\ call'.to = network)
          => /\ peers' = [peers EXCEPT ![peer_addr(call'.c)] =
                             <<[node_type |-> call'.level, last_seen |-> clock]>>]
             /\ conn'[call'.c] = "open"
             /\ UNCHANGED <<blocks, pending_transactions, balances, nonces>>]_vars

\* a Hello that claims another address has replaced an older entry
C23_Witness ==
    /\ program = "node"
    /\ call.op = "Hello"
    /\ call.to = network
    /\ call.addr # peer_addr(call.c)
    /\ handled = 2
    /\ reqs[call.c] = <<>>
    /\ \A d \in Conns \ {call.c} : conn[d] = "none"
    /\ clock > 0
    /\ peers[peer_addr(call.c)] = <<[node_type |-> call.level, last_seen |-> clock]>>

\* C24: every Hello the server accepts is answered with a HelloResponse on
\* the same connection.
C24_HelloResponse ==
    [][(Handles("Hello") /\ call'.to = network)
          => /\ Len(out'[call'.c]) = Len(out[call'.c]) + 1
             /\ out'[call'.c][Len(out'[call'.c])].type = "HelloResponse"]_vars

\* C25: GetStatus replies with head_hash = the hex of the hash of the
\* ledger's last block and height = len(blocks) - 1, as of the moment the
\* request is handled.
C25_GetStatus ==
    (program = "node" /\ call.op = "GetStatus")
        => /\ blocks # <<>>
           /\ returned[1].head_hash = hex_encode(blocks[Len(blocks)].hash)
           /\ returned[1].height = Len(blocks) - 1

\* C26: every SendTransaction request read, whatever its `to` and amount,
\* is answered by exactly one TransactionResponse on its connection: Ok
\* when the transaction was added to the ledger, Err when it was rejected;
\* a rejected request leaves the ledger unchanged.
C26_SendTransactionAnswered ==
    [][Handles("SendTransaction")
          => /\ Len(out'[call'.c]) = Len(out[call'.c]) + 1
             /\ out'[call'.c][Len(out'[call'.c])].type = "TransactionResponse"
             /\ (out'[call'.c][Len(out'[call'.c])].body = "Ok(hash)")
                   <=> (pending_transactions' # pending_transactions)
             /\ (out'[call'.c][Len(out'[call'.c])].body # "Ok(hash)")
                   => UnchangedLedger]_vars

\* C27: a line that does not decode as a Message closes its connection:
\* nothing is written, the peer table and the ledger stay as they are, the
\* other connections and the accept loop are not affected.
C27_BadLine ==
    [][Handles("BadLine")
          => /\ conn'[call'.c] = "closed"
             /\ out' = out
             /\ peers' = peers
             /\ UnchangedLedger
             /\ phase' = "running"
             /\ \A d \in Conns \ {call'.c} : conn'[d] = conn[d]]_vars

\* a line that does not decode has closed one connection while another,
\* whose peer is in the table, is open
C27_Witness ==
    /\ program = "node"
    /\ call.op = "BadLine"
    /\ conn[call.c] = "closed"
    /\ \E d \in Conns \ {call.c} : conn[d] = "open" /\ peers[peer_addr(d)] # <<>>

\* the type of the response that answers a request
ResponseType(request) ==
    CASE request = "GetStatus" -> "Status"
      [] request = "GetPeers" -> "Peers"
      [] request = "SendTransaction" -> "TransactionResponse"

\* C28: on each connection the k-th response written answers the k-th
\* request that bears a response, and while the connection can still be
\* read every request read so far has its response written.
C28_ResponseOrder ==
    program = "node"
        => \A c \in Conns :
              /\ Len(out[c]) <= Len(reqs[c])
              /\ \A k \in 1..Len(out[c]) : out[c][k].type = ResponseType(reqs[c][k])
              /\ conn[c] # "closed" => Len(out[c]) = Len(reqs[c])

\* two requests of different kinds were answered on one connection
C28_Witness ==
    /\ program = "node"
    /\ \E c \in Conns :
          /\ Len(out[c]) = 2
          /\ out[c][1].type = "TransactionResponse"
          /\ out[c][2].type = "Status"

\* C29: a sweep removes every entry whose last_seen is PEER_TIMEOUT (300 s)
\* old or older, so an entry last seen at t0 goes with the first sweep at
\* or after t0 + 300 s; it removes no entry that is less than 300 s old.
C29_PeerExpiry ==
    [][(program = "node" /\ phase = "running" /\ next_sweep' # next_sweep)
          => \A p \in DOMAIN peers :
                peers[p] # <<>>
                   => /\ (clock - peers[p][1].last_seen >= 300) => peers'[p] = <<>>
                      /\ (clock - peers[p][1].last_seen < 300) => peers'[p] = peers[p]]_vars

\* a sweep has removed an entry and kept a younger one
C29_Witness ==
    /\ program = "node"
    /\ call.op = "sweep"
    /\ result = "evicted"
    /\ \E p \in DOMAIN peers : peers[p] # <<>>

\* C30: Node::start (ready, then run) on a node whose initialization
\* succeeds emits Starting, then Ready, then Running, each once and in that
\* order, with or without subscribers on the ready channel; nothing is
\* emitted after Failed.
C30_Lifecycle ==
    program = "node"
        => /\ (call.op = "ready" /\ call.level = "none")
                 => ready_state = <<"Starting", "Ready">>
           /\ (call.op = "run" /\ call.level = "none")
                 => ready_state = <<"Starting", "Ready", "Running">>
           /\ \A i \in 1..(Len(ready_state) - 1) : ready_state[i] # "Failed"

-----------------------------------------------------------------------------
\* Claims about the start of the node and its outbound connection

\* C31: when Node::init_database or the bind of P2P::init fails during
\* Node::start, the node emits Failed and neither Ready nor Running.
C31_StartupFailure ==
    (program = "node" /\ call.op = "ready" /\ result \in {"init_database", "init"})
        => /\ ready_state # <<>>
           /\ Last(ready_state) = "Failed"
           /\ \A i \in 1..Len(ready_state) : ready_state[i] \notin {"Ready", "Running"}

\* C32: whenever the last state emitted is Ready or Running, the node
\* holds its bound listen socket.
C32_ListeningWhenReady ==
    (program = "node" /\ ready_state # <<>> /\ Last(ready_state) \in {"Ready", "Running"})
        => listener

\* C33: when the connect_to_peer(seed) of Node::run returns Ok, the Hello
\* has reached the seed and the seed is in the caller's peer table; when it
\* fails, the peer table is as it was.
C33_OutboundConnect ==
    [][(program = "node" /\ phase = "ready" /\ call'.op = "run" /\ call'.addr = "Normal")
          => /\ result' \in {"running", "run"}
                => /\ \E i \in 1..Len(outbound') :
                        outbound'[i] = connect_to_peer_hello("p0", "Normal", config_network)
                   /\ seed_addr \in DOMAIN peers'
             /\ result' = "connect_to_peer" => peers' = peers]_vars

\* C34: a Hello as connect_to_peer builds it on a node of the receiver's
\* network carries the string the receiver compares with, passes the
\* network check and puts the sender in the receiver's peer table.
C34_SameNetworkHello ==
    [][(Handles("Hello")
          /\ <<call'.addr, call'.level, call'.to>>
                = connect_to_peer_hello(peer_addr(call'.c), call'.level, config_network))
          => /\ call'.to = network
             /\ result' = "Ok"
             /\ peers'[peer_addr(call'.c)] # <<>>
             /\ peers'[peer_addr(call'.c)][1].last_seen = clock]_vars

-----------------------------------------------------------------------------
\* Claims about validation against application

\* what Blockchain::add_transaction returns for tx on a ledger with this
\* state: Transaction::verify, then State::apply_transaction
AddTransactionResult(bal, non, tx) ==
    IF TransactionVerify(tx) # "Ok" THEN TransactionVerify(tx)
    ELSE apply_transaction(bal, non, tx).result

\* C35: tx.validate(Full, S) returns Ok exactly when add_transaction(tx) on
\* a ledger with state S returns Ok; a transaction as Transaction::new
\* built it with nonce = get_nonce(sender) and an amount the balance covers
\* passes both.
C35_ValidateAgreesWithAdd ==
    [][ (call'.op = "validate" /\ call'.level = "Full" /\ call'.n = 1)
        => LET tx == call'.tx[1]
               added == AddTransactionResult(balances, nonces, tx)
           IN  /\ result' = "Ok" <=> added = "Ok"
               /\ (/\ tx \in SignedTxs
                   /\ tx.nonce = get_nonce(nonces, tx.sender)
                   /\ get_balance(balances, tx.sender) >= tx.amount)
                  => result' = "Ok" /\ added = "Ok"
      ]_vars

-----------------------------------------------------------------------------
\* Claims about the blocks of the stake-based node

\* C36: a produce_block that returns an error has changed no user's
\* balance and stored no block.
C36_AtomicBlock ==
    [][ (call'.op = "produce_block" /\ result' # "Ok")
        => /\ users' = users
           /\ dbBlocks' = dbBlocks
           /\ dbTxs' = dbTxs
      ]_vars

\* C37: a produce_block that returns Ok includes no transaction that an
\* earlier produced block included.
C37_IncludedOnce ==
    [][ (call'.op = "produce_block" /\ result' = "Ok")
        => \A i \in 1..Len(dbTxs) : get_all_transactions(dbTxs)[i] \notin okTxs
      ]_vars

\* C38: a produce_block over stored transactions of which one does not
\* verify fails and moves no balance.
C38_VerifyBeforeApply ==
    [][ (/\ call'.op = "produce_block"
         /\ select_validator(users) # {}
         /\ \E i \in 1..Len(dbTxs) : ~PosVerify(dbTxs[i].tx))
        => /\ result' # "Ok"
           /\ \A a \in DOMAIN users : users'[a].balance = users[a].balance
      ]_vars

\* C39: the block of a produce_block that returns Ok after an earlier one
\* did has as previous_hash the hash the earlier call returned.
C39_PosChainLinkage ==
    [][ (call'.op = "produce_block" /\ result' = "Ok" /\ returned # <<>>)
        => dbBlocks'[Len(dbBlocks')].previous_hash = returned[1]
      ]_vars

-----------------------------------------------------------------------------
\* Claims about concurrent handlers

\* the ledger that add_transaction leaves when the SendTransaction arm is
\* run for tx in one piece on this state
SubmittedAlone(bal, non, tx) ==
    IF validate(tx, "Full", <<[balances |-> bal, nonces |-> non]>>) = "Ok"
       /\ AddTransactionResult(bal, non, tx) = "Ok"
    THEN [balances |-> apply_transaction(bal, non, tx).balances,
          nonces |-> apply_transaction(bal, non, tx).nonces]
    ELSE [balances |-> bal, nonces |-> non]

\* C40: a handler between its validate and its add_transaction holds the
\* ledger lock and the state is the one it validated against; each
\* add_transaction step leaves the ledger that the request handled alone
\* on the current ledger leaves, and only such a step changes the ledger;
\* a handler that waits for the lock gets it.
C40_LinearizedSubmission ==
    /\ [](program = "handlers"
            => \A c \in Conns :
                  handlers[c].pc = "validated"
                     => /\ Holds(c)
                        /\ handlers[c].seen = <<[balances |-> balances, nonces |-> nonces]>>)
    /\ [][program = "handlers"
            => IF call'.op = "SendTransaction::add"
               THEN [balances |-> balances', nonces |-> nonces']
                       = SubmittedAlone(balances, nonces, call'.tx[1])
               ELSE UNCHANGED <<balances, nonces, pending_transactions, blocks>>]_vars
    /\ \A c \in Conns :
          (program = "handlers" /\ Waits(c)) ~> (program = "handlers" /\ Holds(c))

\* one handler has validated under the lock while the other waits for it
C40_Witness ==
    /\ program = "handlers"
    /\ handlers[1].pc = "validated"
    /\ handlers[2].pc = "lock"
    /\ ledger_lock = <<1, 2>>

=============================================================================
